---- MODULE Spec2Model ----
(***************************************************************************)
(* Model of dbop_core.core: RetryPolicy.backoff and the retry executor     *)
(* execute (scope -> pre_attempt -> op -> scope exit, per-attempt          *)
(* wait_for deadline, retry_on / classifier / raises handling, sleep).     *)
(* Time is a discrete clock; errors are records carrying their kind, the   *)
(* attempt that produced them and the place they were raised.              *)
(***************************************************************************)
EXTENDS Integers, Sequences, FiniteSets, TLC

\* ---------------------------------------------------------------- bounds
\* largest policy.max_retries explored
MaxRetriesBound == 2
\* duration of a slow awaiting op, and the deadline handed to wait_for
OpSlow == 2
TimeoutS == 1
\* one scheduling quantum of the clock
Quantum == 1

\* ------------------------------------------------------------- constants
\* Python's None (loop sentinel of line 77, absent overall_timeout_s)
None == -1

\* exception classes: the two user classes and asyncio.TimeoutError derive
\* from Exception; asyncio.CancelledError derives from BaseException only
UserKinds == {"Transient", "Fatal"}
ExceptionKinds == UserKinds \cup {"TimeoutError", "ClassifierError"}
AllKinds == ExceptionKinds \cup {"CancelledError"}

\* retry_on tuples explored, given by the kinds isinstance() matches:
\* (), (Transient,), (Exception,), (BaseException,)
RetryOnChoices == { {}, {"Transient"}, ExceptionKinds, AllKinds }

OpKinds == {"coro_fn", "plain_fn", "plain_awaitable"}

\* ------------------------------------------------------------- values
Err(kind, at, src) == [kind |-> kind, at |-> at, src |-> src]
Value(at) == [kind |-> "Value", at |-> at, src |-> "op"]
Default == [kind |-> "Default", at |-> 0, src |-> "caller"]
Nothing == [kind |-> "Nothing", at |-> 0, src |-> "-"]
IsError(x) == x.kind \in AllKinds

Max(a, b) == IF a >= b THEN a ELSE b
Min(a, b) == IF a <= b THEN a ELSE b

\* ------------------------------------------------- RetryPolicy.backoff
\* the pre-jitter base of the i-th delay (d of line 18 / line 22)
RECURSIVE BackoffBase(_, _)
BackoffBase(p, i) ==
  IF i = 1 THEN p.initial_delay
  ELSE Min(p.max_delay, BackoffBase(p, i - 1) * 2)

\* j of line 20
JitterSpan(p, i) == BackoffBase(p, i) * p.jitter

\* the value yielded at line 21 for the draw u of random.uniform(-j, j)
Emitted(p, i, u) == Max(0, Min(p.max_delay, BackoffBase(p, i) + u))

\* range(self.max_retries + 1): one delay too many
BackoffLengthOneMore(p) == Max(0, p.max_retries) + 1

\* number of values the generator yields (range(self.max_retries))
BackoffLength(p) == Max(0, p.max_retries)

\* all sequences backoff() can yield
Backoff(p) ==
  { s \in [1..BackoffLength(p) -> 0..p.max_delay] :
      \A i \in 1..BackoffLength(p) :
        \E u \in (0 - JitterSpan(p, i))..JitterSpan(p, i) : s[i] = Emitted(p, i, u) }

\* (*policy.backoff(), None) of line 77
Schedule(s) == s \o <<None>>

\* ------------------------------------------------------------ the state
VARIABLES
  policy,              \* RetryPolicy: max_retries, initial_delay, max_delay, jitter
  retry_on,            \* kinds caught by "except retry_on"
  has_classifier,      \* classifier is not None
  raises,
  overall_timeout_s,   \* None or the timeout handed to wait_for
  op_kind,             \* coroutine function / plain function / plain callable returning an awaitable
  attempt_scope,       \* a sync scope factory was supplied
  attempt_scope_async, \* an async scope factory was supplied
  pre_attempt,         \* a pre_attempt hook was supplied
  read_only,           \* the read_only argument of execute
  pc,                  \* position of the execute coroutine
  schedule,            \* what is left of (*policy.backoff(), None)
  delay,               \* the loop variable of line 77
  attempts,            \* loop iterations begun
  sleeps,              \* calls of asyncio.sleep(delay)
  classifier_calls,    \* calls of classifier(exc)
  op_raised,           \* calls of op that raised by themselves
  pre_calls,           \* calls of the pre_attempt hook
  entered,             \* attempts whose scope was entered
  sleeps_done,         \* sleeps that ran to their end
  now,                 \* the clock
  attempt_start,       \* clock when the current attempt began
  scope,               \* scope chosen by the current attempt: none / null / sync / async
  scope_open,          \* the chosen scope is entered and not yet exited
  open_scopes,         \* scopes of this call entered and not yet exited
  forwarded,           \* read_only as the chosen factory received it: unset / true / false
  events,              \* what the current attempt has done so far, in order
  body,                \* what the with-body has produced so far
  timed_out,           \* wait_for cancelled the current attempt
  outcome,             \* what "await _with_deadline(_wrapped_once())" gave
  verdict,             \* is_transient of line 81 for the current attempt: none / true / false / raise
  result,              \* what execute gave its caller
  cancelled,           \* the external cancellation has been delivered
  telemetry,           \* execute_traced_optional: disabled / unavailable / enabled
  spans,               \* the <root>.attempt spans opened by this call, in order
  traced,              \* what execute_traced_optional gave its caller
  instruments,         \* otel_runtime's module globals and the threads inside _ensure_metrics
  callers,             \* the concurrent callers of execute: generator, delays, position, attempts, sleeps
  classification,      \* the failure handed to dbapi_classifier and what it returned
  adapter,             \* the contrib module whose scope drives the connection
  conn,                \* the connection's flags: supports_savepoint, fail_savepoint
  backend,             \* the backend argument of the dbapi scope
  spc,                 \* position of the dbapi scope: idle / body / exit / exited
  sp,                  \* the local sp of the dbapi scope: NoSp or the savepoint's name
  trace,               \* statements and calls issued on the connection by this entry, and the body, in order
  failed,              \* the commands of this entry that raised
  yielded,             \* how the with-body ended: none / ok / Exception / CancelledError
  txn,                 \* the connection's transaction: none / open / committed / rolled_back
  exit_error,          \* what left the scope: NoError or the error
  entries,             \* entries of the scope on this connection so far
  sqlite               \* the aiosqlite scope's started_outer, and the SQLite connection's open transaction and savepoints

params == <<policy, retry_on, has_classifier, raises, overall_timeout_s,
            op_kind, attempt_scope, attempt_scope_async, pre_attempt,
            read_only>>
counters == <<attempts, sleeps, classifier_calls, op_raised, pre_calls,
              entered, sleeps_done>>
clock == <<now, attempt_start>>
attempt == <<scope, scope_open, open_scopes, forwarded, events, body,
             timed_out>>
otel == <<telemetry, spans, traced>>
exec_vars == <<params, counters, clock, pc, schedule, delay, attempt,
               outcome, verdict, result, cancelled, otel, instruments, callers,
               classification>>
dbapi == <<adapter, conn, backend, spc, sp, trace, failed, yielded, txn, exit_error,
           entries, sqlite>>
vars == <<exec_vars, dbapi>>

Pending == [tag |-> "pending", x |-> Nothing]
Returned(x) == [tag |-> "return", x |-> x]
Raised(x) == [tag |-> "raise", x |-> x]

\* policies explored: every max_retries up to the bound without jitter
\* (delays 1, 2, 2, ...), and one policy whose single delay is jittered
Policies ==
  { [max_retries |-> m, initial_delay |-> 1, max_delay |-> 2, jitter |-> 0] :
      m \in 0..MaxRetriesBound }
  \cup { [max_retries |-> 1, initial_delay |-> 1, max_delay |-> 2, jitter |-> 1] }

\* threads that call _ensure_metrics, and calls each of them makes
MaxThreads == 2
MaxCalls == 2
Threads == 1..MaxThreads

\* otel_runtime.py lines 35-37: the instrument globals start as None
NoInstrument == 0
InstrumentNames == {"ops", "attempts", "duration"}

\* otel_runtime.py lines 35-38: the module globals after import, and no
\* thread inside _ensure_metrics
ModuleImported(enabled, available) ==
  [metrics_enabled |-> enabled,          \* _metrics_enabled(): DBOP_OTEL_METRICS_ENABLED is set
   otel_metrics |-> available,           \* _otel_metrics is not None
   metrics_instruments_ready |-> FALSE,
   ops_counter |-> NoInstrument,
   attempts_counter |-> NoInstrument,
   duration_histogram |-> NoInstrument,
   created |-> [i \in InstrumentNames |-> 0],   \* calls of meter.create_* so far
   ops_total |-> 0,                             \* sum of the calls _ops_counter.add(1, ...)
   attempts_total |-> 0,                        \* sum of the calls _attempts_counter.add(1, ...)
   durations |-> 0,                             \* calls of _duration_histogram.record
   tpc |-> [t \in Threads |-> "idle"],          \* position of each thread in _ensure_metrics
   calls |-> [t \in Threads |-> 0],             \* calls each thread has begun
   seen |-> [t \in Threads |-> <<>>]]           \* instruments each thread read after its last call

\* concurrent callers of execute that share one RetryPolicy object
MaxCallers == 2
Callers == 1..MaxCallers

\* largest max_delay of the policies whose backoff() is enumerated
MaxDelayBound == 3

\* no caller has called execute, no generator exists
NoCallers ==
  [gen |-> [c \in Callers |-> [d |-> 0, n |-> 0]],   \* locals of each generator: d, iterations done
   delays |-> [c \in Callers |-> <<>>],              \* what each caller has unpacked (line 77)
   bases |-> [c \in Callers |-> <<>>],               \* d at each yield, before the draw
   draws |-> [c \in Callers |-> <<>>],               \* what random.uniform returned
   cpc |-> [c \in Callers |-> "start"],              \* position of each caller in execute
   cattempts |-> [c \in Callers |-> 0],              \* attempts each caller has begun
   cslept |-> [c \in Callers |-> <<>>]]              \* delays each caller has slept, in order

\* getattr(..., None) found no attribute
NoAttr == "None"

\* an element of args: none (the tuple is empty or missing), an integer,
\* or text that int() rejects
NoArg == [kind |-> "absent", n |-> 0]
IntArg(n) == [kind |-> "int", n |-> n]
TextArg == [kind |-> "text", n |-> 0]

\* Exception("boom") without orig: nothing for the classifier to find
PlainFailure ==
  [pgcode |-> NoAttr, sqlstate |-> NoAttr, args0 |-> TextArg, msg |-> {},
   msg_case |-> "lower", type |-> "Exception", has_orig |-> FALSE, orig_pgcode |-> NoAttr,
   orig_sqlstate |-> NoAttr, orig_args0 |-> NoArg, orig_type |-> "Exception"]

\* dbapi_classifier has not been called
NoFailure ==
  [failure |-> PlainFailure, classified |-> FALSE, is_transient |-> FALSE]

\* execute has been called and has not run yet
ExecutorStart ==
  /\ pc = "call"
  /\ schedule = <<>>
  /\ delay = None
  /\ attempts = 0 /\ sleeps = 0 /\ classifier_calls = 0
  /\ op_raised = 0 /\ pre_calls = 0 /\ entered = 0 /\ sleeps_done = 0
  /\ now = 0 /\ attempt_start = 0
  /\ scope = "none"
  /\ scope_open = FALSE
  /\ open_scopes = 0
  /\ forwarded = "unset"
  /\ events = <<>>
  /\ body = Nothing
  /\ timed_out = FALSE
  /\ outcome = Nothing
  /\ verdict = "none"
  /\ result = Pending
  /\ cancelled = FALSE
  /\ spans = <<>>
  /\ traced = Pending

\* nothing has run: the executor, the module globals, the callers, the classifier
ExecStart ==
  /\ ExecutorStart
  /\ instruments = ModuleImported(FALSE, FALSE)
  /\ callers = NoCallers
  /\ classification = NoFailure

\* sp: Optional[str] = None of line 36
NoSp == ""

\* no error has left the scope
NoError == [kind |-> "none", src |-> "-"]

\* aiosqlite_adapter.py line 14, on a connection with nothing open
NoSqlite ==
  [started_outer |-> FALSE, begun |-> FALSE, savepoints |-> 0,
   entry_begun |-> FALSE, entry_savepoints |-> 0]

\* no connection is in a scope: nothing issued, no transaction
DbapiAtRest ==
  /\ spc = "idle"
  /\ sp = NoSp
  /\ trace = <<>>
  /\ failed = {}
  /\ yielded = "none"
  /\ txn = "none"
  /\ exit_error = NoError
  /\ entries = 0
  /\ sqlite = NoSqlite

\* the arguments of execute other than policy
Arguments ==
  /\ retry_on \in RetryOnChoices
  /\ has_classifier \in BOOLEAN
  /\ raises \in BOOLEAN
  /\ overall_timeout_s \in {None, TimeoutS}
  /\ op_kind \in OpKinds
  /\ attempt_scope \in BOOLEAN
  /\ attempt_scope_async \in BOOLEAN
  /\ pre_attempt \in BOOLEAN
  \* read_only is read only by a scope factory (lines 65, 69) and by
  \* nothing else: it is varied in the calls that supply a factory and
  \* leave classifier and raises at their defaults (lines 39-40), and is
  \* the default of the signature (line 43) in the others
  /\ read_only \in (IF (attempt_scope \/ attempt_scope_async) /\ ~has_classifier /\ raises
                    THEN BOOLEAN ELSE {FALSE})

\* no scope of a contrib module is in use
NoAdapter ==
  /\ adapter = "dbapi"
  /\ conn = [supports_savepoint |-> TRUE, fail_savepoint |-> FALSE]
  /\ backend = ""
  /\ DbapiAtRest

Init ==
  /\ telemetry = "disabled"
  /\ NoAdapter
  /\ policy \in Policies
  /\ Arguments
  /\ ExecStart

\* the dbapi scope is the sync factory of an execute call that is about to
\* start: attempt_scope = partial(attempt_scope_sync, conn, backend=...)
ExecWithDbapiScope ==
  /\ telemetry = "disabled"
  /\ policy = [max_retries |-> 0, initial_delay |-> 1, max_delay |-> 2, jitter |-> 0]
  /\ retry_on = ExceptionKinds
  /\ has_classifier = FALSE
  /\ raises = TRUE
  /\ overall_timeout_s = None
  /\ op_kind = "coro_fn"
  /\ attempt_scope = TRUE
  /\ attempt_scope_async = FALSE
  /\ pre_attempt = FALSE
  /\ ExecStart

\* ------------------------------------------------------------- execute
\* line 77: the for statement evaluates (*policy.backoff(), None) once,
\* drawing every jitter before the first attempt
Call ==
  /\ pc = "call"
  /\ \E s \in Backoff(policy) : schedule' = Schedule(s)
  /\ pc' = "loop"
  /\ UNCHANGED <<dbapi, instruments, callers, classification, otel, params, counters, clock, delay, attempt, outcome, verdict,
                 result, cancelled>>

\* lines 77-79: the loop takes the next delay and starts an attempt.  The
\* sentinel None is the last item and its iteration always returns or
\* raises, so the loop never runs off the end of the schedule.
NextAttempt ==
  /\ pc = "loop"
  /\ schedule # <<>>
  /\ delay' = Head(schedule)
  /\ schedule' = Tail(schedule)
  /\ attempts' = attempts + 1
  /\ attempt_start' = now
  /\ scope' = "none" /\ scope_open' = FALSE
  /\ forwarded' = "unset" /\ events' = <<>>
  /\ body' = Nothing /\ timed_out' = FALSE
  /\ outcome' = Nothing /\ verdict' = "none"
  /\ pc' = "scope_enter"
  /\ UNCHANGED <<dbapi, instruments, callers, classification, otel, params, sleeps, classifier_calls, op_raised, pre_calls,
                 entered, sleeps_done, now, open_scopes, result, cancelled>>

\* lines 63-69: which context manager _wrapped_once enters
ScopeChoice ==
  IF attempt_scope_async /\ op_kind = "coro_fn" THEN "async"
  ELSE IF attempt_scope THEN "sync"
  ELSE "null"

\* lines 72-75 with the coroutine awaited directly: the cancellation is
\* not turned into a timeout
WithDeadlinePassThrough(res, to) == res

\* lines 72-75: what awaiting _with_deadline gives for an attempt that
\* ended with res; wait_for turns the cancellation it caused into TimeoutError
WithDeadline(res, to) ==
  IF overall_timeout_s = None THEN res
  ELSE IF to THEN Err("TimeoutError", res.at, "deadline")
  ELSE res

\* failures a caller-supplied scope or hook may raise
ScopeFailKinds == {"Transient"}
HookFailKinds == {"Fatal"}

\* _once without its first statement: the hook is never called
StepAfterSkipsHook(step) ==
  CASE step = "scope_enter" -> "op"
    [] step = "pre_attempt" -> "op"
    [] step = "op" -> "scope_exit"

\* _once with its two statements exchanged: op first, the hook after it
StepAfterHookLast(step) ==
  CASE step = "scope_enter" -> "op"
    [] step = "op" -> "pre_attempt"
    [] step = "pre_attempt" -> "scope_exit"

\* lines 57-70: what an attempt does next after a step that did not raise:
\* the with statement enters the scope, _once calls the hook and then op,
\* and the with statement is left
StepAfter(step) ==
  CASE step = "scope_enter" -> "pre_attempt"
    [] step = "pre_attempt" -> "op"
    [] step = "op" -> "scope_exit"

\* lines 65 / 69 with the literal False passed for read_only
ForwardedAlwaysFalse(kind) == IF kind = "null" THEN "unset" ELSE "false"

\* lines 65 / 69: the chosen factory is called with read_only=read_only;
\* nullcontext() takes no argument
Forwarded(kind) ==
  IF kind = "null" THEN "unset"
  ELSE IF read_only THEN "true" ELSE "false"

\* the with statement forgets to leave the scope
AfterExitStillOpen(n) == n

\* lines 64-70: leaving the with block closes the scope it entered
AfterExit(n) == n - 1

\* otel_runtime.py lines 242-243: with telemetry enabled a supplied factory
\* is replaced by its wrapper (wrap_sync / wrap_async); a factory that was
\* not supplied stays None, and nullcontext() is never wrapped
Wrapped(kind) == telemetry = "enabled" /\ kind # "null"

\* otel_runtime.py lines 195-204 / 220-229: the wrapper counts the attempt
\* and opens the span before it calls the factory; a factory or an
\* __enter__ that raises closes the span with outcome error (lines 209-213)
SpanOpened(kind, entry_ok) ==
  IF Wrapped(kind)
  THEN Append(spans, [number |-> Len(spans) + 1,
                      outcome |-> IF entry_ok THEN "unset" ELSE "error"])
  ELSE spans

\* otel_runtime.py lines 205-213 / 230-238: the outcome attribute is set from
\* what leaves "with factory(read_only): yield"
SpanClosed(kind, left) ==
  IF Wrapped(kind)
  THEN [spans EXCEPT ![Len(spans)].outcome =
          IF left.kind = "Value" THEN "success" ELSE "error"]
  ELSE spans

\* lines 64-65 / 69: the scope is built and entered; a failure of the
\* factory or of __enter__ leaves _wrapped_once before the body
ScopeEnter ==
  /\ pc = "scope_enter"
  /\ scope' = ScopeChoice
  /\ forwarded' = Forwarded(ScopeChoice)
  /\ events' = Append(events, "scope.enter")
  /\ \/ /\ scope_open' = TRUE
        /\ open_scopes' = open_scopes + 1
        /\ entered' = entered + 1
        /\ spans' = SpanOpened(ScopeChoice, TRUE)
        /\ pc' = StepAfter("scope_enter")
        /\ UNCHANGED <<body, outcome>>
     \/ /\ ScopeChoice # "null"
        /\ \E k \in ScopeFailKinds :
             /\ body' = Err(k, attempts, "scope_enter")
             /\ outcome' = WithDeadline(body', FALSE)
        /\ scope_open' = FALSE
        /\ spans' = SpanOpened(ScopeChoice, FALSE)
        /\ pc' = "except"
        /\ UNCHANGED <<open_scopes, entered>>
  /\ UNCHANGED <<dbapi, instruments, callers, classification, telemetry, traced, params, attempts, sleeps, classifier_calls, op_raised,
                 pre_calls, sleeps_done, clock, schedule, delay, timed_out,
                 verdict, result, cancelled>>

\* the hook's exception taken straight to the except clauses, past the
\* __exit__ of the entered scope
AfterHookFailureSkipsExit == "except"

\* lines 64-70: the hook runs inside the with block, so its exception
\* leaves through the scope's __exit__
AfterHookFailure == "scope_exit"

\* otel_runtime.py line 157: metrics_active, in a call that passed the
\* fast paths of lines 115 and 137
MetricsActive ==
  /\ telemetry = "enabled"
  /\ instruments.metrics_instruments_ready
  /\ instruments.metrics_enabled

\* otel_runtime.py lines 253-263: the hook handed to execute adds 1 to
\* dbop_attempts_total before it calls the caller's hook
AttemptCounted ==
  IF MetricsActive /\ instruments.attempts_counter # NoInstrument
  THEN [instruments EXCEPT !.attempts_total = @ + 1]
  ELSE instruments

\* lines 58-59: the hook, when supplied, runs before op
PreAttempt ==
  /\ pc = "pre_attempt"
  /\ instruments' = AttemptCounted
  /\ pre_calls' = pre_calls + (IF pre_attempt THEN 1 ELSE 0)
  /\ events' = IF pre_attempt THEN Append(events, "pre_attempt") ELSE events
  /\ \/ /\ pc' = StepAfter("pre_attempt")
        /\ UNCHANGED body
     \/ /\ pre_attempt
        /\ \E k \in HookFailKinds : body' = Err(k, attempts, "pre_attempt")
        /\ pc' = AfterHookFailure
  /\ UNCHANGED <<dbapi, callers, classification, otel, params, attempts, sleeps, classifier_calls, op_raised,
                 entered, sleeps_done, clock, schedule, delay, scope,
                 scope_open, open_scopes, forwarded, timed_out, outcome,
                 verdict, result, cancelled>>

\* line 55: op suspends only when its result is awaited
Awaits(k) == k \in {"coro_fn", "plain_awaitable"}
OpDurations(k) == IF Awaits(k) THEN {0, OpSlow} ELSE {0}

\* line 75: wait_for cancels the attempt when it is still running after
\* overall_timeout_s, counted from the start of this attempt
DeadlineHits(dur) ==
  /\ overall_timeout_s # None
  /\ (now - attempt_start) + dur > overall_timeout_s

\* lines 53-55 and 60: op is called and, if it gave an awaitable, awaited
CallOp ==
  /\ pc = "op"
  /\ events' = Append(events, "op")
  /\ \/ \* op runs to its own end: a value or an exception of its own
        \E dur \in OpDurations(op_kind), r \in {"Value"} \cup UserKinds :
          /\ ~DeadlineHits(dur)
          /\ now' = now + dur
          /\ body' = IF r = "Value" THEN Value(attempts)
                     ELSE Err(r, attempts, "op")
          /\ op_raised' = IF r = "Value" THEN op_raised ELSE op_raised + 1
          /\ UNCHANGED <<timed_out, cancelled>>
     \/ \* the deadline of wait_for passes while op is suspended
        /\ Awaits(op_kind)
        /\ DeadlineHits(OpSlow)
        /\ now' = attempt_start + overall_timeout_s
        /\ body' = Err("CancelledError", attempts, "deadline")
        /\ timed_out' = TRUE
        /\ UNCHANGED <<op_raised, cancelled>>
     \/ \* the caller cancels the task while op is suspended
        /\ Awaits(op_kind)
        /\ ~cancelled
        /\ cancelled' = TRUE
        /\ body' = Err("CancelledError", attempts, "external")
        /\ UNCHANGED <<now, op_raised, timed_out>>
  /\ pc' = IF body'.kind = "Value" THEN StepAfter("op") ELSE "scope_exit"
  /\ UNCHANGED <<dbapi, instruments, callers, classification, otel, params, attempts, sleeps, classifier_calls, pre_calls,
                 entered, sleeps_done, attempt_start, schedule, delay, scope,
                 scope_open, open_scopes, forwarded, outcome, verdict, result>>

\* what the __exit__ of a real scope can raise after a body that returned
ExitFailures ==
  IF scope # "null" /\ body.kind = "Value"
  THEN {Err(k, attempts, "scope_exit") : k \in ScopeFailKinds}
  ELSE {}

\* lines 64-70: leaving the with block.  __exit__ sees the body's result:
\* it commits after a value (the commit may fail) and rolls back and
\* re-raises after an exception; the awaited _with_deadline then ends
ScopeExit ==
  /\ pc = "scope_exit"
  /\ \E left \in {body} \cup ExitFailures :
       /\ outcome' = WithDeadline(left, timed_out)
       /\ spans' = SpanClosed(scope, left)
  /\ scope_open' = FALSE
  /\ open_scopes' = AfterExit(open_scopes)
  /\ events' = Append(events, "scope.exit")
  /\ pc' = "except"
  /\ UNCHANGED <<dbapi, instruments, callers, classification, telemetry, traced, params, counters, clock, schedule,
                 delay, scope, forwarded, body, timed_out, verdict, result,
                 cancelled>>

\* line 79: the attempt gave a value and execute returns it
Return ==
  /\ pc = "except"
  /\ outcome.kind = "Value"
  /\ result' = Returned(outcome)
  /\ pc' = "done"
  /\ UNCHANGED <<dbapi, instruments, callers, classification, otel, params, counters, clock, schedule, delay, attempt, outcome,
                 verdict, cancelled>>

\* line 81: what calling the classifier can give
ClassifierVerdicts == IF has_classifier THEN {"true", "false", "raise"} ELSE {"true"}

\* lines 83-85 with raises ignored
TerminalRetryOnAlwaysRaises(exc) == Raised(exc)

\* lines 83-85: the end of the call inside "except retry_on"
TerminalRetryOn(exc) == IF raises THEN Raised(exc) ELSE Returned(Default)

\* lines 88-90 reduced to a bare "raise"
TerminalOtherAlwaysRaises(exc) == Raised(exc)

\* lines 88-90 with the test of raises inverted
TerminalOtherInverted(exc) == IF raises THEN Returned(Default) ELSE Raised(exc)

\* lines 88-90: the end of the call inside "except Exception"
TerminalOther(exc) == IF raises THEN Raised(exc) ELSE Returned(Default)

\* a dropped "not" in line 82: a transient failure ends the call
StopsRetryingInverted(v, d) == v = "true" \/ d = None

\* line 82 without the classifier's verdict
StopsRetryingAtEndOnly(v, d) == d = None

\* line 82: the call ends here
StopsRetrying(v, d) == v = "false" \/ d = None

\* "except Exception" in place of "except retry_on"
CaughtAnyException(exc) == exc.kind \in ExceptionKinds

\* line 80: isinstance(exc, retry_on)
Caught(exc) == exc.kind \in retry_on

\* line 81 with the classifier asked a second time for the same failure
ConsultedTwice == IF has_classifier THEN 2 ELSE 0

\* line 81: calls of the classifier made for one caught failure:
\* "classifier(exc) if classifier else True"
Consulted == IF has_classifier THEN 1 ELSE 0

\* lines 82-86 with the sleep placed before the test of line 82
SleepsAfterAlways(v, d, n) == n + 1

\* lines 82-86: calls of asyncio.sleep made so far, n before this failure:
\* the sleep of line 86 is reached only past the return or raise of
\* lines 83-85
SleepsAfter(v, d, n) == IF StopsRetrying(v, d) THEN n ELSE n + 1

\* lines 80-86: the failure is an instance of retry_on
ExceptRetryOn ==
  /\ pc = "except"
  /\ IsError(outcome)
  /\ Caught(outcome)
  /\ classifier_calls' = classifier_calls + Consulted
  /\ \E v \in ClassifierVerdicts :
       /\ verdict' = v
       /\ IF v = "raise"
          THEN \* the classifier's exception leaves the except block
               /\ result' = Raised(Err("ClassifierError", attempts, "classifier"))
               /\ pc' = "done"
               /\ UNCHANGED sleeps
          ELSE IF StopsRetrying(v, delay)
          THEN /\ result' = TerminalRetryOn(outcome)
               /\ pc' = "done"
               /\ sleeps' = SleepsAfter(v, delay, sleeps)
          ELSE \* line 86: asyncio.sleep(delay) is called
               /\ sleeps' = SleepsAfter(v, delay, sleeps)
               /\ pc' = "sleep"
               /\ UNCHANGED result
  /\ UNCHANGED <<dbapi, instruments, callers, classification, otel, params, attempts, op_raised, pre_calls, entered,
                 sleeps_done, clock, schedule, delay, attempt, outcome,
                 cancelled>>

\* lines 87-90: an Exception that retry_on does not match
ExceptException ==
  /\ pc = "except"
  /\ IsError(outcome)
  /\ ~Caught(outcome)
  /\ outcome.kind \in ExceptionKinds
  /\ result' = TerminalOther(outcome)
  /\ pc' = "done"
  /\ UNCHANGED <<dbapi, instruments, callers, classification, otel, params, counters, clock, schedule, delay, attempt, outcome,
                 verdict, cancelled>>

\* lines 78-90: a BaseException that neither except clause matches leaves
\* execute as it is
Propagate ==
  /\ pc = "except"
  /\ IsError(outcome)
  /\ ~Caught(outcome)
  /\ outcome.kind \notin ExceptionKinds
  /\ result' = Raised(outcome)
  /\ pc' = "done"
  /\ UNCHANGED <<dbapi, instruments, callers, classification, otel, params, counters, clock, schedule, delay, attempt, outcome,
                 verdict, cancelled>>

\* line 86: the sleep runs to its end and the loop goes on
Sleep ==
  /\ pc = "sleep"
  /\ now' = now + delay
  /\ sleeps_done' = sleeps_done + 1
  /\ pc' = "loop"
  /\ UNCHANGED <<dbapi, instruments, callers, classification, otel, params, attempts, sleeps, classifier_calls, op_raised,
                 pre_calls, entered, attempt_start, schedule, delay, attempt,
                 outcome, verdict, result, cancelled>>

\* line 86: the caller cancels the task during the sleep; CancelledError
\* is raised inside the except block and leaves execute
CancelSleep ==
  /\ pc = "sleep"
  /\ ~cancelled
  /\ cancelled' = TRUE
  /\ \E t \in 0..delay : now' = now + t
  /\ result' = Raised(Err("CancelledError", attempts, "sleep"))
  /\ pc' = "done"
  /\ UNCHANGED <<dbapi, instruments, callers, classification, otel, params, counters, attempt_start, schedule, delay, attempt,
                 outcome, verdict>>

\* otel_runtime.py lines 113-151: telemetry disabled, or enabled with
\* opentelemetry not importable: "return await execute(...)"
TelemetryModes == {"disabled", "unavailable", "enabled"}

\* otel_runtime.py lines 272-319: with telemetry enabled, whatever execute
\* raises is caught as BaseException; it is re-raised when raises is true
\* and replaced by default otherwise; on the other two paths (lines 115,
\* 137) execute's result is handed on as it is
TracedResult(r) ==
  IF telemetry = "enabled" /\ r.tag = "raise" /\ ~raises
  THEN Returned(Default)
  ELSE r

\* otel_runtime.py lines 287-319: the operation counter and the duration
\* are recorded in the except branch only when raises is true (lines
\* 293-303), and in the else branch (lines 307-316), which is not run when
\* execute raised
OperationRecorded(r) ==
  IF /\ MetricsActive
     /\ instruments.ops_counter # NoInstrument
     /\ instruments.duration_histogram # NoInstrument
     /\ ~(r.tag = "raise" /\ ~raises)
  THEN [instruments EXCEPT !.ops_total = @ + 1, !.durations = @ + 1]
  ELSE instruments

\* execute has ended and execute_traced_optional, which awaited it, ends
TracedReturn ==
  /\ pc = "done"
  /\ traced = Pending
  /\ traced' = TracedResult(result)
  /\ instruments' = OperationRecorded(result)
  /\ UNCHANGED <<dbapi, callers, classification, telemetry, spans, params, counters, clock, pc,
                 schedule, delay, attempt, outcome, verdict, result,
                 cancelled>>

Next ==
  \/ Call
  \/ NextAttempt
  \/ ScopeEnter
  \/ PreAttempt
  \/ CallOp
  \/ ScopeExit
  \/ Return
  \/ ExceptRetryOn
  \/ ExceptException
  \/ Propagate
  \/ Sleep
  \/ CancelSleep

Spec == Init /\ [][Next]_vars

\* ------------------------------------------------ RetryPolicy.backoff
\* the generator as the interpreter runs it, one iteration at a time

\* line 21 without the cap at max_delay
YieldedUncapped(p, d, u) == Max(0, d + u)

\* line 21: the value yielded when d is the base and u the draw
Yielded(p, d, u) == Max(0, Min(p.max_delay, d + u))

\* line 22: the base without doubling
NextBaseSame(p, d) == Min(p.max_delay, d)

\* line 22
NextBase(p, d) == Min(p.max_delay, d * 2)

\* every call shares the generator of caller 1
OwnerShared(c) == 1

\* line 77: policy.backoff() makes a new generator object at each call, so
\* the generator a caller iterates is its own
Owner(c) == c

\* policies of the documented domain: 0 <= initial_delay <= max_delay,
\* jitter 0 or 1
BackoffPolicies ==
  { [max_retries |-> m, initial_delay |-> i, max_delay |-> x, jitter |-> j] :
      m \in 0..(MaxRetriesBound + 2), i \in 0..MaxDelayBound, x \in 0..MaxDelayBound,
      j \in 0..1 }

\* an execute call with default arguments over a policy p
CallersStart(ps) ==
  /\ telemetry = "disabled"
  /\ NoAdapter
  /\ policy \in ps
  /\ retry_on = ExceptionKinds
  /\ has_classifier = FALSE
  /\ raises = TRUE
  /\ overall_timeout_s = None
  /\ op_kind = "coro_fn"
  /\ attempt_scope = FALSE
  /\ attempt_scope_async = FALSE
  /\ pre_attempt = FALSE
  /\ read_only = FALSE
  /\ ExecStart

InitBackoff == CallersStart({ p \in BackoffPolicies : p.initial_delay <= p.max_delay })

InitCalls == CallersStart(Policies)

\* what the callers leave alone
outside_callers == <<dbapi, params, counters, clock, pc, schedule, delay,
                     attempt, outcome, verdict, result, cancelled, otel,
                     instruments, classification>>

\* line 77: policy.backoff() is called; line 18 runs at the first next()
BackoffCall(c) ==
  /\ callers.cpc[c] = "start"
  /\ callers' = [callers EXCEPT
                   !.cpc[c] = "unpack",
                   !.gen[Owner(c)] = [d |-> policy.initial_delay, n |-> 0]]
  /\ UNCHANGED outside_callers

\* lines 19-22: one iteration of the generator, up to the next test of range
BackoffYield(c) ==
  /\ callers.cpc[c] = "unpack"
  /\ callers.gen[Owner(c)].n < policy.max_retries
  /\ LET d == callers.gen[Owner(c)].d
         j == d * policy.jitter
     IN \E u \in (0 - j)..j :
          callers' = [callers EXCEPT
                       !.delays[c] = Append(@, Yielded(policy, d, u)),
                       !.bases[c] = Append(@, d),
                       !.draws[c] = Append(@, u),
                       !.gen[Owner(c)] = [d |-> NextBase(policy, d), n |-> @.n + 1]]
  /\ UNCHANGED outside_callers

\* line 19: range(self.max_retries) is exhausted; line 77 appends None and
\* the loop begins
BackoffExhausted(c) ==
  /\ callers.cpc[c] = "unpack"
  /\ callers.gen[Owner(c)].n >= policy.max_retries
  /\ callers' = [callers EXCEPT !.cpc[c] = "attempt"]
  /\ UNCHANGED outside_callers

\* lines 79 and 87-90: the attempt returns, or fails with an error that
\* is not retried
AttemptEnds(c) ==
  /\ callers.cpc[c] = "attempt"
  /\ callers' = [callers EXCEPT !.cattempts[c] = @ + 1, !.cpc[c] = "done"]
  /\ UNCHANGED outside_callers

\* lines 80-85: the attempt fails with a transient error; delay is None
\* after the last element of the generator
AttemptRetries(c) ==
  /\ callers.cpc[c] = "attempt"
  /\ callers' = [callers EXCEPT
                   !.cattempts[c] = @ + 1,
                   !.cpc[c] = IF callers.cattempts[c] + 1 > Len(callers.delays[c])
                              THEN "done" ELSE "sleep"]
  /\ UNCHANGED outside_callers

\* line 86
CallerSleeps(c) ==
  /\ callers.cpc[c] = "sleep"
  /\ callers' = [callers EXCEPT
                   !.cslept[c] = Append(@, callers.delays[c][callers.cattempts[c]]),
                   !.cpc[c] = "attempt"]
  /\ UNCHANGED outside_callers

\* list(p.backoff()): one generator run to exhaustion
NextBackoff ==
  \/ BackoffCall(1)
  \/ BackoffYield(1)
  \/ BackoffExhausted(1)

SpecBackoff == InitBackoff /\ [][NextBackoff]_vars

\* the callers run in any order
NextCalls ==
  \E c \in Callers :
    \/ BackoffCall(c)
    \/ BackoffYield(c)
    \/ BackoffExhausted(c)
    \/ AttemptEnds(c)
    \/ AttemptRetries(c)
    \/ CallerSleeps(c)

SpecCalls == InitCalls /\ [][NextCalls]_vars

\* ------------------------------------------- classify.dbapi_classifier
\* line 13
TransientSqlStates == {"40P01", "55P03", "40001"}

\* line 36
TransientErrnos == {1213, 1205, 3572, 2006, 2013}

\* line 47
OperationalNames == {"OperationalError", "InterfaceError", "TimeoutError"}

\* lines 50-57
OperationalTokens ==
  {"timeout", "deadlock", "lock wait", "gone away", "lost connection",
   "connection reset"}

\* str(exc) as the set of the searched phrases it contains, letter case
\* apart; a message that contains a phrase contains the phrases inside it
Messages ==
  { {},
    {"deadlock detected", "deadlock"},
    {"canceling statement due to statement timeout", "timeout"},
    {"lock wait timeout", "lock wait", "timeout"},
    {"database is locked"},
    {"timeout"},
    {"gone away"},
    {"connection reset"} }

\* the letter case str(exc) is written in
MessageCases == {"lower", "upper"}

\* the failures the classifier is given
Failures ==
  { [pgcode |-> a, sqlstate |-> b, args0 |-> c, msg |-> m.text,
     msg_case |-> m.case, type |-> t,
     has_orig |-> o.has, orig_pgcode |-> o.pg, orig_sqlstate |-> o.ss,
     orig_args0 |-> o.a0, orig_type |-> o.ty] :
      a \in {NoAttr, "40P01", "42601"},
      b \in {NoAttr, "40001", "42601"},
      c \in {NoArg, TextArg, IntArg(1213), IntArg(1205), IntArg(1045)},
      m \in { x \in [text : Messages, case : MessageCases] :
                 x.text = {} => x.case = "lower" },
      t \in {"Exception", "OperationalError", "TimeoutError"},
      o \in { [has |-> FALSE, pg |-> NoAttr, ss |-> NoAttr, a0 |-> NoArg,
               ty |-> "Exception"] }
            \cup [has : {TRUE}, pg : {NoAttr, "55P03", "42601"},
                  ss : {NoAttr, "40001"},
                  a0 : {NoArg, TextArg, IntArg(3572), IntArg(2006),
                        IntArg(2013), IntArg(1045)},
                  ty : {"Exception", "InterfaceError"}] }

\* str(exc) searched as it is written: the lower-case literals are found
\* in a lower-case message only
MsgAsWritten(e) == IF e.msg_case = "lower" THEN e.msg ELSE {}

\* line 5: msg = str(exc).lower()
Msg(e) == e.msg

\* "in msg"
InMsg(e, phrase) == phrase \in Msg(e)

\* lines 8-12: the first of exc.pgcode, exc.sqlstate, exc.orig.pgcode that
\* is truthy
Pg(e) ==
  IF e.pgcode # NoAttr THEN e.pgcode
  ELSE IF e.sqlstate # NoAttr THEN e.sqlstate
  ELSE IF e.has_orig THEN e.orig_pgcode
  ELSE NoAttr

\* int(args[0]) of lines 25 and 31; None where nothing is assigned
IntOf(a) == IF a.kind = "int" THEN a.n ELSE None

\* lines 21-27 alone: the number of the wrapped cause
ErrnoOfOrigOnly(e) ==
  IF e.has_orig THEN IntOf(e.orig_args0) ELSE None

\* lines 21-33: the number of the wrapped cause, else that of the failure
Errno(e) ==
  LET of_orig == IF e.has_orig THEN IntOf(e.orig_args0) ELSE None
  IN IF of_orig # None THEN of_orig ELSE IntOf(e.args0)

\* lines 46-59 with "or" between the test of the names and that of the message
GenericOperationalEither(e) ==
  \/ e.type \in OperationalNames \/ (e.has_orig /\ e.orig_type \in OperationalNames)
  \/ \E t \in OperationalTokens : InMsg(e, t)

\* lines 46-59
GenericOperational(e) ==
  /\ e.type \in OperationalNames \/ (e.has_orig /\ e.orig_type \in OperationalNames)
  /\ \E t \in OperationalTokens : InMsg(e, t)

\* lines 15-18, 38, 42 and 46-59: every test of the message
MessageSignal(e) ==
  \/ InMsg(e, "canceling statement due to statement timeout")
  \/ InMsg(e, "deadlock detected")
  \/ InMsg(e, "canceling statement due to lock timeout")
  \/ InMsg(e, "nowait is set")
  \/ InMsg(e, "deadlock")
  \/ InMsg(e, "lock wait timeout")
  \/ InMsg(e, "database is locked")
  \/ GenericOperational(e)

\* lines 4-61
dbapi_classifier(e) ==
  \/ Pg(e) \in TransientSqlStates
  \/ Errno(e) \in TransientErrnos
  \/ MessageSignal(e)

InitClassify ==
  /\ telemetry = "disabled"
  /\ NoAdapter
  /\ policy = [max_retries |-> 0, initial_delay |-> 1, max_delay |-> 2, jitter |-> 0]
  /\ retry_on = ExceptionKinds
  /\ has_classifier = TRUE
  /\ raises = TRUE
  /\ overall_timeout_s = None
  /\ op_kind = "coro_fn"
  /\ attempt_scope = FALSE
  /\ attempt_scope_async = FALSE
  /\ pre_attempt = FALSE
  /\ read_only = FALSE
  /\ ExecutorStart
  /\ instruments = ModuleImported(FALSE, FALSE)
  /\ callers = NoCallers
  /\ classification \in
       { [failure |-> f, classified |-> FALSE, is_transient |-> FALSE] :
           f \in Failures }

\* core.py line 81: is_transient = classifier(exc)
Classify ==
  /\ ~classification.classified
  /\ classification' = [classification EXCEPT
                          !.classified = TRUE,
                          !.is_transient = dbapi_classifier(classification.failure)]
  /\ UNCHANGED <<dbapi, params, counters, clock, pc, schedule, delay,
                 attempt, outcome, verdict, result, cancelled, otel,
                 instruments, callers>>

NextClassify == Classify

SpecClassify == InitClassify /\ [][NextClassify]_vars

\* --------------------------------------- otel_runtime._ensure_metrics
\* a new instrument object: told apart from every one made before
NewInstrument ==
  instruments.created["ops"] + instruments.created["attempts"]
    + instruments.created["duration"] + 1

InitMetrics ==
  /\ telemetry = "enabled"
  /\ NoAdapter
  /\ policy \in Policies
  /\ retry_on = ExceptionKinds
  /\ has_classifier = FALSE
  /\ raises = TRUE
  /\ overall_timeout_s = None
  /\ op_kind = "coro_fn"
  /\ attempt_scope = FALSE
  /\ attempt_scope_async = FALSE
  /\ pre_attempt = FALSE
  /\ read_only = FALSE
  /\ pc = "call"
  /\ schedule = <<>>
  /\ delay = None
  /\ attempts = 0 /\ sleeps = 0 /\ classifier_calls = 0
  /\ op_raised = 0 /\ pre_calls = 0 /\ entered = 0 /\ sleeps_done = 0
  /\ now = 0 /\ attempt_start = 0
  /\ scope = "none"
  /\ scope_open = FALSE
  /\ open_scopes = 0
  /\ forwarded = "unset"
  /\ events = <<>>
  /\ body = Nothing
  /\ timed_out = FALSE
  /\ outcome = Nothing
  /\ verdict = "none"
  /\ result = Pending
  /\ cancelled = FALSE
  /\ spans = <<>>
  /\ traced = Pending
  /\ instruments \in { ModuleImported(e, a) : e, a \in BOOLEAN }
  /\ callers = NoCallers
  /\ classification = NoFailure

\* what _ensure_metrics leaves alone
outside_metrics == <<dbapi, params, counters, clock, pc, schedule, delay,
                     attempt, outcome, verdict, result, cancelled, otel, callers,
                     classification>>

\* what a thread reads from the globals after its call returned
InstrumentsRead ==
  <<instruments.ops_counter, instruments.attempts_counter,
    instruments.duration_histogram>>

\* line 156: a thread calls _ensure_metrics()
EnsureBegin(t) ==
  /\ instruments.tpc[t] = "idle"
  /\ instruments.calls[t] < MaxCalls
  /\ instruments' = [instruments EXCEPT !.calls[t] = @ + 1, !.tpc[t] = "check"]
  /\ UNCHANGED outside_metrics

\* lines 48-57: the three early returns, else get_meter; a call that
\* returns leaves the thread reading the globals (lines 157, 259, 297, 310)
EnsureCheck(t) ==
  /\ instruments.tpc[t] = "check"
  /\ IF \/ instruments.metrics_instruments_ready
        \/ ~instruments.metrics_enabled
        \/ ~instruments.otel_metrics
     THEN instruments' = [instruments EXCEPT
                            !.tpc[t] = "idle", !.seen[t] = InstrumentsRead]
     ELSE instruments' = [instruments EXCEPT !.tpc[t] = "create_ops"]
  /\ UNCHANGED outside_metrics

\* lines 59-62
CreateOpsCounter(t) ==
  /\ instruments.tpc[t] = "create_ops"
  /\ instruments' = [instruments EXCEPT
                       !.ops_counter = NewInstrument,
                       !.created["ops"] = @ + 1,
                       !.tpc[t] = "create_attempts"]
  /\ UNCHANGED outside_metrics

\* lines 63-66
CreateAttemptsCounter(t) ==
  /\ instruments.tpc[t] = "create_attempts"
  /\ instruments' = [instruments EXCEPT
                       !.attempts_counter = NewInstrument,
                       !.created["attempts"] = @ + 1,
                       !.tpc[t] = "create_duration"]
  /\ UNCHANGED outside_metrics

\* lines 67-71
CreateDurationHistogram(t) ==
  /\ instruments.tpc[t] = "create_duration"
  /\ instruments' = [instruments EXCEPT
                       !.duration_histogram = NewInstrument,
                       !.created["duration"] = @ + 1,
                       !.tpc[t] = "set_ready"]
  /\ UNCHANGED outside_metrics

\* line 73, and the return; the thread then reads the globals
SetReady(t) ==
  /\ instruments.tpc[t] = "set_ready"
  /\ instruments' = [instruments EXCEPT
                       !.metrics_instruments_ready = TRUE,
                       !.tpc[t] = "idle",
                       !.seen[t] = InstrumentsRead]
  /\ UNCHANGED outside_metrics

\* one step of one thread; nothing orders the threads (the module holds no lock)
NextMetrics ==
  \E t \in Threads :
    \/ EnsureBegin(t)
    \/ EnsureCheck(t)
    \/ CreateOpsCounter(t)
    \/ CreateAttemptsCounter(t)
    \/ CreateDurationHistogram(t)
    \/ SetReady(t)

SpecMetrics == InitMetrics /\ [][NextMetrics]_vars

\* ------------------------------ otel_runtime.execute_traced_optional
\* policies of the traced calls: one retry, no jitter
TracedPolicies == {p \in Policies : p.max_retries = 1 /\ p.jitter = 0}

\* otel_runtime.py line 156 in a process where metrics are enabled and
\* importable: _ensure_metrics() has created the three instruments
MetricsReady ==
  [ModuleImported(TRUE, TRUE) EXCEPT
     !.metrics_instruments_ready = TRUE,
     !.ops_counter = 1,
     !.attempts_counter = 2,
     !.duration_histogram = 3,
     !.created = [i \in InstrumentNames |-> 1]]

InitTraced ==
  /\ telemetry \in TelemetryModes
  /\ NoAdapter
  /\ policy \in TracedPolicies
  /\ Arguments
  /\ ExecutorStart
  /\ instruments \in (IF telemetry = "enabled"
                      THEN {ModuleImported(FALSE, FALSE), MetricsReady}
                      ELSE {ModuleImported(FALSE, FALSE)})
  /\ callers = NoCallers
  /\ classification = NoFailure

\* the execute of line 115, 137 or 273, and then the return of the wrapper
NextTraced ==
  \/ Next
  \/ TracedReturn

SpecTraced == InitTraced /\ [][NextTraced]_vars

\* ------------------------------- contrib/dbapi_adapter.attempt_scope_sync
\* entries of the scope made on one connection
MaxEntries == 2

\* backend arguments explored: None (taken as ""), a mixed-case spelling,
\* the three names line 43 lists, and one it does not list
Backends == {"", "PostgreSQL", "postgresql", "mysql", "mariadb", "sqlite"}

\* the names _sp_name() can draw (line 13-14)
SpNames == {"dbop_a", "dbop_b"}

\* how the with-body can end: it returns, it raises an Exception, or a
\* CancelledError (a BaseException) is thrown into it, by a cancellation of
\* the task or by wait_for at the deadline (core.py line 75)
BodyOutcomes == {"ok", "Exception", "CancelledError"}

Stmt(cmd, name) == [cmd |-> cmd, name |-> name]
ScopeErr(kind, src) == [kind |-> kind, src |-> src]

\* line 31: (backend or "").lower()
Lower(b) == IF b = "PostgreSQL" THEN "postgresql" ELSE b

\* line 43
ReadOnlyBackends == {"postgresql", "mysql", "mariadb"}

\* lines 32-34
SpSupported == conn.supports_savepoint /\ ~conn.fail_savepoint

\* lines 41-44 without the test of line 43
EmitsReadOnlyOnEveryBackend(be) == read_only

\* lines 41-44: the hint is sent when read_only and the backend takes it
EmitsReadOnly(be) == read_only /\ be \in ReadOnlyBackends

\* line 64 without the suppress of line 62: a failed RELEASE goes to the handler
AfterReleaseUnsuppressed(release_failed) ==
  IF release_failed THEN "except" ELSE "commit"

\* lines 62-65: whatever RELEASE SAVEPOINT did, conn.commit() is next
AfterRelease(release_failed) == "commit"

\* line 67: except Exception
Handles(kind) == kind = "Exception"

InitScope ==
  /\ adapter = "dbapi"
  /\ ExecWithDbapiScope
  /\ read_only \in BOOLEAN
  /\ conn \in [supports_savepoint : BOOLEAN, fail_savepoint : BOOLEAN]
  /\ backend \in Backends
  /\ DbapiAtRest

\* lines 31-54: everything before the yield. A BEGIN that raises leaves the
\* scope at once; a SET TRANSACTION READ ONLY that raises is suppressed; a
\* SAVEPOINT that raises leaves sp None.
DbapiEnter ==
  /\ spc \in {"idle", "exited"}
  /\ entries < MaxEntries
  /\ \E begin_ok, set_ok, sp_ok \in BOOLEAN, candidate \in SpNames :
       LET set_part == IF begin_ok /\ EmitsReadOnly(Lower(backend))
                       THEN <<Stmt("SET TRANSACTION READ ONLY", NoSp)>>
                       ELSE <<>>
           sp_part == IF begin_ok /\ SpSupported
                      THEN <<Stmt("SAVEPOINT", candidate)>>
                      ELSE <<>>
       IN /\ trace' = <<Stmt("BEGIN", NoSp)>> \o set_part \o sp_part
          /\ failed' = (IF begin_ok THEN {} ELSE {"BEGIN"})
                       \cup (IF set_part # <<>> /\ ~set_ok
                             THEN {"SET TRANSACTION READ ONLY"} ELSE {})
                       \cup (IF sp_part # <<>> /\ ~sp_ok
                             THEN {"SAVEPOINT"} ELSE {})
          /\ sp' = IF sp_part # <<>> /\ sp_ok THEN candidate ELSE NoSp
          /\ txn' = IF begin_ok THEN "open" ELSE txn
          /\ spc' = IF begin_ok THEN "body" ELSE "exited"
          /\ exit_error' = IF begin_ok THEN NoError
                           ELSE ScopeErr("Exception", "BEGIN")
  /\ yielded' = "none"
  /\ entries' = entries + 1
  /\ UNCHANGED <<exec_vars, sqlite, adapter, conn, backend>>

\* line 58: the yield; the with-body runs and ends in one of its ways
DbapiBody ==
  /\ spc = "body"
  /\ \E r \in BodyOutcomes : yielded' = r
  /\ trace' = Append(trace, Stmt("body", NoSp))
  /\ spc' = "exit"
  /\ UNCHANGED <<exec_vars, sqlite, adapter, conn, backend, sp, failed, txn, exit_error,
                 entries>>

\* lines 60-75: everything after the yield. The success path releases the
\* savepoint and commits; an Exception of the body, or of conn.commit(),
\* goes to the handler of line 67, which rolls back and re-raises; anything
\* that is not an Exception passes the handler by.
DbapiExit ==
  /\ spc = "exit"
  /\ \E release_ok, commit_ok, rollback_to_ok, rollback_ok \in BOOLEAN :
       LET success == yielded = "ok"
           release_part == IF success /\ sp # NoSp
                           THEN <<Stmt("RELEASE SAVEPOINT", sp)>> ELSE <<>>
           release_failed == release_part # <<>> /\ ~release_ok
           commits == success /\ AfterRelease(release_failed) = "commit"
           commit_part == IF commits THEN <<Stmt("COMMIT", NoSp)>> ELSE <<>>
           committed == commits /\ commit_ok
           error == IF ~success THEN ScopeErr(yielded, "body")
                    ELSE IF ~commits THEN ScopeErr("Exception", "RELEASE SAVEPOINT")
                    ELSE IF ~commit_ok THEN ScopeErr("Exception", "COMMIT")
                    ELSE NoError
           handled == error # NoError /\ Handles(error.kind)
           rollback_to_part == IF handled /\ sp # NoSp
                               THEN <<Stmt("ROLLBACK TO SAVEPOINT", sp)>> ELSE <<>>
           rollback_part == IF handled THEN <<Stmt("ROLLBACK", NoSp)>> ELSE <<>>
       IN /\ trace' = trace \o release_part \o commit_part
                            \o rollback_to_part \o rollback_part
          /\ failed' = failed
                       \cup (IF release_failed THEN {"RELEASE SAVEPOINT"} ELSE {})
                       \cup (IF commits /\ ~commit_ok THEN {"COMMIT"} ELSE {})
                       \cup (IF rollback_to_part # <<>> /\ ~rollback_to_ok
                             THEN {"ROLLBACK TO SAVEPOINT"} ELSE {})
                       \cup (IF handled /\ ~rollback_ok THEN {"ROLLBACK"} ELSE {})
          /\ txn' = IF committed THEN "committed"
                    ELSE IF handled /\ rollback_ok THEN "rolled_back"
                    ELSE txn
          /\ exit_error' = error
  /\ spc' = "exited"
  /\ UNCHANGED <<exec_vars, sqlite, adapter, conn, backend, sp, yielded, entries>>

NextScope ==
  \/ DbapiEnter
  \/ DbapiBody
  \/ DbapiExit

SpecScope == InitScope /\ [][NextScope]_vars

\* ------------- contrib/psycopg_adapter and contrib/asyncpg_adapter scopes
\* attempt_scope_sync and attempt_scope_async of psycopg_adapter.py, and
\* attempt_scope_async of asyncpg_adapter.py
PgAdapters == {"psycopg_sync", "psycopg_async", "asyncpg"}

\* asyncpg_adapter.py line 13: with suppress(Exception) around the hint;
\* psycopg_adapter.py lines 26-27 and 36-37 execute it bare
SuppressesHint(a) == a = "asyncpg"

\* psycopg sends the hint inside the inner transaction block (lines 23-27);
\* asyncpg sends it between the outer and the inner block (lines 11-16)
HintInsideInner(a) == a # "asyncpg"

\* conn.transaction() entered and left; "exit-tx-error" is an exit that was
\* handed an exception
EnterTx(which) == Stmt("enter-tx", which)
ExitTx(which, clean) == Stmt(IF clean THEN "exit-tx" ELSE "exit-tx-error", which)

InitPg ==
  /\ adapter \in PgAdapters
  /\ ExecWithDbapiScope
  /\ read_only \in BOOLEAN
  /\ conn = [supports_savepoint |-> TRUE, fail_savepoint |-> FALSE]
  /\ backend = "postgresql"
  /\ DbapiAtRest

\* everything before the yield: the outer block, the inner block and the
\* hint, in the adapter's order. An exception before the yield leaves the
\* blocks already entered, innermost first, and then the scope.
PgEnter ==
  /\ adapter \in PgAdapters
  /\ spc \in {"idle", "exited"}
  /\ entries < MaxEntries
  /\ \E outer_ok, inner_ok, set_ok \in BOOLEAN :
       LET hint == IF read_only
                   THEN <<Stmt("SET TRANSACTION READ ONLY", NoSp)>> ELSE <<>>
           hint_raises == read_only /\ ~set_ok /\ ~SuppressesHint(adapter)
           hint_failed == IF read_only /\ ~set_ok
                          THEN {"SET TRANSACTION READ ONLY"} ELSE {}
           inside == HintInsideInner(adapter)
           before == <<EnterTx("outer")>>
                       \o (IF inside THEN <<>> ELSE hint)
                       \o <<EnterTx("inner")>>
       IN IF ~outer_ok
          THEN /\ trace' = <<EnterTx("outer")>>
               /\ failed' = {"enter-tx outer"}
               /\ txn' = txn
               /\ spc' = "exited"
               /\ exit_error' = ScopeErr("Exception", "enter-tx outer")
          ELSE IF ~inner_ok
          THEN /\ trace' = before \o <<ExitTx("outer", FALSE)>>
               /\ failed' = {"enter-tx inner"}
                             \cup (IF inside THEN {} ELSE hint_failed)
               /\ txn' = "rolled_back"
               /\ spc' = "exited"
               /\ exit_error' = ScopeErr("Exception", "enter-tx inner")
          ELSE IF inside /\ hint_raises
          THEN /\ trace' = before \o hint
                             \o <<ExitTx("inner", FALSE), ExitTx("outer", FALSE)>>
               /\ failed' = hint_failed
               /\ txn' = "rolled_back"
               /\ spc' = "exited"
               /\ exit_error' = ScopeErr("Exception", "SET TRANSACTION READ ONLY")
          ELSE /\ trace' = before \o (IF inside THEN hint ELSE <<>>)
               /\ failed' = hint_failed
               /\ txn' = "open"
               /\ spc' = "body"
               /\ exit_error' = NoError
  /\ yielded' = "none"
  /\ entries' = entries + 1
  /\ UNCHANGED <<exec_vars, sqlite, adapter, conn, backend, sp>>

\* the yield (psycopg_adapter.py lines 28, 38; asyncpg_adapter.py line 17)
PgBody ==
  /\ adapter \in PgAdapters
  /\ spc = "body"
  /\ \E r \in BodyOutcomes : yielded' = r
  /\ trace' = Append(trace, Stmt("body", NoSp))
  /\ spc' = "exit"
  /\ UNCHANGED <<exec_vars, sqlite, adapter, conn, backend, sp, failed, txn,
                 exit_error, entries>>

\* after the yield: the inner block and then the outer block are left,
\* cleanly when the body returned (release, commit) and with the body's
\* exception otherwise (rollback), which then leaves the scope
PgExit ==
  /\ adapter \in PgAdapters
  /\ spc = "exit"
  /\ LET clean == yielded = "ok"
     IN /\ trace' = trace \o <<ExitTx("inner", clean), ExitTx("outer", clean)>>
        /\ txn' = IF clean THEN "committed" ELSE "rolled_back"
        /\ exit_error' = IF clean THEN NoError ELSE ScopeErr(yielded, "body")
  /\ spc' = "exited"
  /\ UNCHANGED <<exec_vars, sqlite, adapter, conn, backend, sp, failed, yielded,
                 entries>>

NextPg ==
  \/ PgEnter
  \/ PgBody
  \/ PgExit

SpecPg == InitPg /\ [][NextPg]_vars

\* ------------------------------ contrib/sqlalchemy_adapter session scopes
\* attempt_scope_sync (lines 9-42) and attempt_scope_async (lines 45-78):
\* the same statements, awaited in the second
SaAdapters == {"sqlalchemy_sync", "sqlalchemy_async"}

\* how the with-body can end under a session scope: the outcomes of the
\* other scopes, and an InvalidRequestError (line 4), which the scope
\* names in its handlers
SaBodyOutcomes == BodyOutcomes \cup {"InvalidRequestError"}

\* what a call on the session or on tx can do: return, raise
\* InvalidRequestError, or raise another Exception
SaCallResults == {"ok", "InvalidRequestError", "Exception"}

\* what tx.rollback() can do in the handler of lines 23-29: the results
\* above, and an Exception whose text has "does not exist" (line 27)
SaRollbackResults == SaCallResults \cup {"does not exist"}

\* sp while tx is the SAVEPOINT of sess.begin_nested() (lines 12, 48)
SaNested == "begin_nested"

\* lines 20, 30: except InvalidRequestError
IsInvalidRequest(kind) == kind = "InvalidRequestError"

\* lines 23, 39: except Exception; InvalidRequestError is an Exception
IsException(kind) == kind \in {"Exception", "InvalidRequestError"}

\* lines 26-28: the rollback's own exception is raised unless its text
\* has "does not exist"
RollbackRaised(rb) == rb \in {"Exception", "InvalidRequestError"}

\* lines 34-36 (and 14-16): the hint, under suppress(Exception)
SaHint == IF read_only THEN <<Stmt("SET TRANSACTION READ ONLY", NoSp)>> ELSE <<>>

\* contextmanager's answer to a generator that yields again (line 37)
\* after the body has ended
DidNotStop == ScopeErr("RuntimeError", "second yield")

InitSa ==
  /\ adapter \in SaAdapters
  /\ ExecWithDbapiScope
  /\ read_only \in BOOLEAN
  /\ conn = [supports_savepoint |-> TRUE, fail_savepoint |-> FALSE]
  /\ backend = ""
  /\ DbapiAtRest

\* lines 11-17 and 30-37: everything before the yield. begin_nested that
\* raises InvalidRequestError leads to sess.begin() (line 32); any other
\* exception of begin_nested, and any exception of begin, leaves the scope.
SaEnter ==
  /\ adapter \in SaAdapters
  /\ spc \in {"idle", "exited"}
  /\ entries < MaxEntries
  /\ \E nested \in SaCallResults, begin_ok, set_ok \in BOOLEAN :
       LET hint_failed == IF read_only /\ ~set_ok
                          THEN {"SET TRANSACTION READ ONLY"} ELSE {}
       IN IF nested = "ok"
          THEN /\ trace' = <<Stmt("begin_nested", NoSp)>> \o SaHint
               /\ failed' = hint_failed
               /\ sp' = SaNested
               /\ txn' = "open"
               /\ spc' = "body"
               /\ exit_error' = NoError
          ELSE IF ~IsInvalidRequest(nested)
          THEN /\ trace' = <<Stmt("begin_nested", NoSp)>>
               /\ failed' = {"begin_nested"}
               /\ sp' = NoSp
               /\ txn' = txn
               /\ spc' = "exited"
               /\ exit_error' = ScopeErr(nested, "begin_nested")
          ELSE IF ~begin_ok
          THEN /\ trace' = <<Stmt("begin_nested", NoSp), Stmt("begin", NoSp)>>
               /\ failed' = {"begin_nested", "begin"}
               /\ sp' = NoSp
               /\ txn' = txn
               /\ spc' = "exited"
               /\ exit_error' = ScopeErr("Exception", "begin")
          ELSE /\ trace' = <<Stmt("begin_nested", NoSp), Stmt("begin", NoSp)>>
                             \o SaHint
               /\ failed' = {"begin_nested"} \cup hint_failed
               /\ sp' = NoSp
               /\ txn' = "open"
               /\ spc' = "body"
               /\ exit_error' = NoError
  /\ yielded' = "none"
  /\ entries' = entries + 1
  /\ UNCHANGED <<exec_vars, sqlite, adapter, conn, backend>>

\* the yield of line 17 or of line 37: the with-body runs and ends
SaBody ==
  /\ adapter \in SaAdapters
  /\ spc = "body"
  /\ \E r \in SaBodyOutcomes : yielded' = r
  /\ trace' = Append(trace, Stmt("body", NoSp))
  /\ spc' = "exit"
  /\ UNCHANGED <<exec_vars, sqlite, adapter, conn, backend, sp, failed, txn,
                 exit_error, entries>>

\* lines 18-37 after the yield of line 17, and lines 38-42 after the yield
\* of line 37. Under the savepoint an InvalidRequestError, of the body, of
\* tx.commit() or of tx.rollback(), is absorbed by the handlers of lines 20
\* and 30, and the function goes on to sess.begin() and to a second yield.
SaExit ==
  /\ adapter \in SaAdapters
  /\ spc = "exit"
  /\ \E cm \in SaCallResults, rb \in SaRollbackResults,
        begin_ok, set_ok \in BOOLEAN :
       LET success == yielded = "ok"
           commit_part == IF success THEN <<Stmt("commit", sp)>> ELSE <<>>
           \* what the yield, or the commit after it, raised
           error == IF ~success THEN ScopeErr(yielded, "body")
                    ELSE IF cm # "ok" THEN ScopeErr(cm, "commit")
                    ELSE NoError
           handled == error # NoError /\ IsException(error.kind)
           rollback_part == IF handled THEN <<Stmt("rollback", sp)>> ELSE <<>>
           rollback_failed == IF handled /\ rb # "ok" THEN {"rollback"} ELSE {}
           commit_failed == IF success /\ cm # "ok" THEN {"commit"} ELSE {}
           \* lines 20-22 absorb the error; lines 28 and 30 absorb the
           \* rollback's InvalidRequestError
           absorbed == /\ sp = SaNested
                       /\ handled
                       /\ \/ IsInvalidRequest(error.kind)
                          \/ IsInvalidRequest(rb)
           hint_failed == IF absorbed /\ begin_ok /\ read_only /\ ~set_ok
                          THEN {"SET TRANSACTION READ ONLY"} ELSE {}
       IN IF absorbed
          THEN \* lines 32-37 run after the body has ended
               /\ trace' = trace \o commit_part \o rollback_part
                                 \o <<Stmt("begin", NoSp)>>
                                 \o (IF begin_ok THEN SaHint ELSE <<>>)
               /\ failed' = failed \cup commit_failed \cup rollback_failed
                                   \cup hint_failed
                                   \cup (IF begin_ok THEN {} ELSE {"begin"})
               /\ sp' = NoSp
               /\ txn' = IF begin_ok THEN "open"
                         ELSE IF rb = "ok" THEN "rolled_back" ELSE txn
               /\ exit_error' = IF begin_ok THEN DidNotStop
                                ELSE ScopeErr("Exception", "begin")
          ELSE /\ trace' = trace \o commit_part \o rollback_part
               /\ failed' = failed \cup commit_failed \cup rollback_failed
               /\ sp' = sp
               /\ txn' = IF error = NoError THEN "committed"
                         ELSE IF handled /\ rb = "ok" THEN "rolled_back"
                         ELSE txn
               /\ exit_error' = IF sp = SaNested /\ handled /\ RollbackRaised(rb)
                                THEN ScopeErr(rb, "rollback")
                                ELSE error
  /\ spc' = "exited"
  /\ UNCHANGED <<exec_vars, sqlite, adapter, conn, backend, yielded, entries>>

NextSa ==
  \/ SaEnter
  \/ SaBody
  \/ SaExit

SpecSa == InitSa /\ [][NextSa]_vars

\* ------------------------------ contrib/aiosqlite_adapter.attempt_scope_async
\* the connection as SQLite keeps it: a BEGIN transaction is open or not,
\* and the savepoints that are open; with the two as they were when the
\* current entry of the scope began

\* line 17 or 22, when the statement succeeds: one more savepoint is open
LiteSavepoint(c) == [c EXCEPT !.savepoints = @ + 1]

\* line 20: SQLite refuses BEGIN inside a transaction, which a BEGIN or an
\* outermost SAVEPOINT has opened
LiteCanBegin(c) == ~c.begun /\ c.savepoints = 0

\* line 20, when the statement succeeds
LiteBegin(c) == [c EXCEPT !.begun = TRUE]

\* line 27, when the statement succeeds: the savepoint is gone
LiteRelease(c) == [c EXCEPT !.savepoints = @ - 1]

\* line 32, when the statement succeeds: the changes made since the
\* savepoint are undone and the savepoint stays open
LiteRollbackTo(c) == c

\* lines 29 and 35, when the call succeeds: the transaction ends, and all
\* its savepoints with it
LiteEnd(c) == [c EXCEPT !.begun = FALSE, !.savepoints = 0]

\* a new entry of the scope: started_outer = False (line 14)
LiteEntered(c) ==
  [c EXCEPT !.started_outer = FALSE,
            !.entry_begun = c.begun,
            !.entry_savepoints = c.savepoints]

InitLite ==
  /\ adapter = "aiosqlite"
  /\ ExecWithDbapiScope
  /\ read_only \in BOOLEAN
  /\ conn = [supports_savepoint |-> TRUE, fail_savepoint |-> FALSE]
  /\ backend = "sqlite"
  /\ spc = "idle"
  /\ sp = NoSp
  /\ trace = <<>>
  /\ failed = {}
  /\ yielded = "none"
  /\ txn = "none"
  /\ exit_error = NoError
  /\ entries = 0
  \* the caller may have a transaction of its own open on the connection
  /\ \E b \in BOOLEAN :
       sqlite = [NoSqlite EXCEPT !.begun = b, !.entry_begun = b]

\* lines 14-22: everything before the yield. An exception of BEGIN or of
\* the second SAVEPOINT leaves the scope.
LiteEnter ==
  /\ adapter = "aiosqlite"
  /\ spc \in {"idle", "exited"}
  /\ entries < MaxEntries
  /\ \E first_ok, begin_ok, second_ok \in BOOLEAN :
       LET c == LiteEntered(sqlite)
           begins == begin_ok /\ LiteCanBegin(c)
           outer == [c EXCEPT !.started_outer = TRUE]
       IN IF first_ok
          THEN /\ trace' = <<Stmt("SAVEPOINT", "dbop_runner")>>
               /\ failed' = {}
               /\ sqlite' = LiteSavepoint(c)
               /\ txn' = "none"
               /\ spc' = "body"
               /\ exit_error' = NoError
          ELSE IF ~begins
          THEN /\ trace' = <<Stmt("SAVEPOINT", "dbop_runner"), Stmt("BEGIN", NoSp)>>
               /\ failed' = {"SAVEPOINT", "BEGIN"}
               /\ sqlite' = outer
               /\ txn' = "none"
               /\ spc' = "exited"
               /\ exit_error' = ScopeErr("Exception", "BEGIN")
          ELSE IF ~second_ok
          THEN /\ trace' = <<Stmt("SAVEPOINT", "dbop_runner"), Stmt("BEGIN", NoSp),
                             Stmt("SAVEPOINT", "dbop_runner")>>
               /\ failed' = {"SAVEPOINT", "SAVEPOINT after BEGIN"}
               /\ sqlite' = LiteBegin(outer)
               /\ txn' = "open"
               /\ spc' = "exited"
               /\ exit_error' = ScopeErr("Exception", "SAVEPOINT after BEGIN")
          ELSE /\ trace' = <<Stmt("SAVEPOINT", "dbop_runner"), Stmt("BEGIN", NoSp),
                             Stmt("SAVEPOINT", "dbop_runner")>>
               /\ failed' = {"SAVEPOINT"}
               /\ sqlite' = LiteSavepoint(LiteBegin(outer))
               /\ txn' = "open"
               /\ spc' = "body"
               /\ exit_error' = NoError
  /\ sp' = "dbop_runner"
  /\ yielded' = "none"
  /\ entries' = entries + 1
  /\ UNCHANGED <<exec_vars, adapter, conn, backend>>

\* line 25: the yield
LiteBody ==
  /\ adapter = "aiosqlite"
  /\ spc = "body"
  /\ \E r \in BodyOutcomes : yielded' = r
  /\ trace' = Append(trace, Stmt("body", NoSp))
  /\ spc' = "exit"
  /\ UNCHANGED <<exec_vars, sqlite, adapter, conn, backend, sp, failed, txn,
                 exit_error, entries>>

\* lines 26-36: everything after the yield. conn.commit() and
\* conn.rollback() are called only when this entry issued BEGIN.
LiteExit ==
  /\ adapter = "aiosqlite"
  /\ spc = "exit"
  /\ \E release_ok, commit_ok, rollback_to_ok, rollback_ok \in BOOLEAN :
       LET success == yielded = "ok"
           started_outer == sqlite.started_outer
           released == success /\ release_ok /\ sqlite.savepoints > 0
           commits == success /\ started_outer
           committed == commits /\ commit_ok
           error == IF ~success THEN ScopeErr(yielded, "body")
                    ELSE IF commits /\ ~commit_ok THEN ScopeErr("Exception", "COMMIT")
                    ELSE NoError
           handled == error # NoError /\ Handles(error.kind)
           rolled_to == handled /\ rollback_to_ok /\ sqlite.savepoints > 0
           rollbacks == handled /\ started_outer
           rolled_back == rollbacks /\ rollback_ok
           c1 == IF released THEN LiteRelease(sqlite) ELSE sqlite
           c2 == IF committed THEN LiteEnd(c1) ELSE c1
           c3 == IF rolled_to THEN LiteRollbackTo(c2) ELSE c2
           c4 == IF rolled_back THEN LiteEnd(c3) ELSE c3
       IN /\ trace' = trace
                        \o (IF success THEN <<Stmt("RELEASE SAVEPOINT", sp)>> ELSE <<>>)
                        \o (IF commits THEN <<Stmt("COMMIT", NoSp)>> ELSE <<>>)
                        \o (IF handled THEN <<Stmt("ROLLBACK TO SAVEPOINT", sp)>> ELSE <<>>)
                        \o (IF rollbacks THEN <<Stmt("ROLLBACK", NoSp)>> ELSE <<>>)
          /\ failed' = failed
                        \cup (IF success /\ ~released THEN {"RELEASE SAVEPOINT"} ELSE {})
                        \cup (IF commits /\ ~commit_ok THEN {"COMMIT"} ELSE {})
                        \cup (IF handled /\ ~rolled_to THEN {"ROLLBACK TO SAVEPOINT"} ELSE {})
                        \cup (IF rollbacks /\ ~rollback_ok THEN {"ROLLBACK"} ELSE {})
          /\ sqlite' = c4
          /\ txn' = IF committed THEN "committed"
                    ELSE IF rolled_back THEN "rolled_back"
                    ELSE txn
          /\ exit_error' = error
  /\ spc' = "exited"
  /\ UNCHANGED <<exec_vars, adapter, conn, backend, sp, yielded, entries>>

NextLite ==
  \/ LiteEnter
  \/ LiteBody
  \/ LiteExit

SpecLite == InitLite /\ [][NextLite]_vars

\* ------------------------------ contrib/aiomysql_adapter.attempt_scope_async
\* line 7: _SP_NAME
SP_NAME == "dbop_runner"

\* lines 74-76: the hint, under suppress(Exception)
MyHint == IF read_only THEN <<Stmt("SET TRANSACTION READ ONLY", NoSp)>> ELSE <<>>

\* lines 90-93: the savepoint of this entry is released, then the runner
MyReleases(name) ==
  <<Stmt("RELEASE SAVEPOINT", name), Stmt("RELEASE SAVEPOINT", SP_NAME)>>

\* lines 102-105: back to the savepoint of this entry, then to the runner
MyRollbacksTo(name) ==
  <<Stmt("ROLLBACK TO SAVEPOINT", name), Stmt("ROLLBACK TO SAVEPOINT", SP_NAME)>>

\* lines 95-99: the COMMIT statement, and conn.commit() when it raised
MyCommit(stmt_ok) ==
  <<Stmt("COMMIT", NoSp)>>
    \o (IF stmt_ok THEN <<>> ELSE <<Stmt("conn.commit", NoSp)>>)

\* lines 106-110: the ROLLBACK statement, and conn.rollback() when it raised
MyRollback(stmt_ok) ==
  <<Stmt("ROLLBACK", NoSp)>>
    \o (IF stmt_ok THEN <<>> ELSE <<Stmt("conn.rollback", NoSp)>>)

InitMy ==
  /\ adapter = "aiomysql"
  /\ ExecWithDbapiScope
  /\ read_only \in BOOLEAN
  /\ conn = [supports_savepoint |-> TRUE, fail_savepoint |-> FALSE]
  /\ backend = "mysql"
  /\ DbapiAtRest

\* lines 72-85: everything before the yield. Only BEGIN can fail the
\* entry; the hint and the two SAVEPOINT statements are under suppress.
MyEnter ==
  /\ adapter = "aiomysql"
  /\ spc \in {"idle", "exited"}
  /\ entries < MaxEntries
  /\ \E begin_ok \in BOOLEAN, name \in SpNames,
        ok \in [{"SET TRANSACTION READ ONLY", "SAVEPOINT dbop_runner",
                 "SAVEPOINT sp"} -> BOOLEAN] :
       IF ~begin_ok
       THEN /\ trace' = <<Stmt("BEGIN", NoSp)>>
            /\ failed' = {"BEGIN"}
            /\ sp' = NoSp
            /\ txn' = txn
            /\ spc' = "exited"
            /\ exit_error' = ScopeErr("Exception", "BEGIN")
       ELSE /\ trace' = <<Stmt("BEGIN", NoSp)>> \o MyHint
                          \o <<Stmt("SAVEPOINT", SP_NAME), Stmt("SAVEPOINT", name)>>
            /\ failed' = {c \in (IF read_only THEN {"SET TRANSACTION READ ONLY"}
                                               ELSE {})
                                   \cup {"SAVEPOINT dbop_runner", "SAVEPOINT sp"} :
                             ~ok[c]}
            /\ sp' = name
            /\ txn' = "open"
            /\ spc' = "body"
            /\ exit_error' = NoError
  /\ yielded' = "none"
  /\ entries' = entries + 1
  /\ UNCHANGED <<exec_vars, sqlite, adapter, conn, backend>>

\* line 88: the yield
MyBody ==
  /\ adapter = "aiomysql"
  /\ spc = "body"
  /\ \E r \in BodyOutcomes : yielded' = r
  /\ trace' = Append(trace, Stmt("body", NoSp))
  /\ spc' = "exit"
  /\ UNCHANGED <<exec_vars, sqlite, adapter, conn, backend, sp, failed, txn,
                 exit_error, entries>>

\* lines 89-111: everything after the yield. Nothing on the success path
\* raises, so the handler of line 100 sees the body's Exception only.
MyExit ==
  /\ adapter = "aiomysql"
  /\ spc = "exit"
  /\ \E ok \in [{"RELEASE SAVEPOINT sp", "RELEASE SAVEPOINT dbop_runner",
                 "COMMIT", "conn.commit",
                 "ROLLBACK TO SAVEPOINT sp", "ROLLBACK TO SAVEPOINT dbop_runner",
                 "ROLLBACK", "conn.rollback"} -> BOOLEAN] :
       LET success == yielded = "ok"
           handled == ~success /\ Handles(yielded)
       IN /\ trace' = trace
                        \o (IF success
                            THEN MyReleases(sp) \o MyCommit(ok["COMMIT"])
                            ELSE <<>>)
                        \o (IF handled
                            THEN MyRollbacksTo(sp) \o MyRollback(ok["ROLLBACK"])
                            ELSE <<>>)
          /\ failed' = failed
               \cup (IF success
                     THEN {c \in {"RELEASE SAVEPOINT sp",
                                  "RELEASE SAVEPOINT dbop_runner", "COMMIT"}
                                 \cup (IF ok["COMMIT"] THEN {} ELSE {"conn.commit"}) :
                            ~ok[c]}
                     ELSE {})
               \cup (IF handled
                     THEN {c \in {"ROLLBACK TO SAVEPOINT sp",
                                  "ROLLBACK TO SAVEPOINT dbop_runner", "ROLLBACK"}
                                 \cup (IF ok["ROLLBACK"] THEN {} ELSE {"conn.rollback"}) :
                            ~ok[c]}
                     ELSE {})
          /\ txn' = IF success /\ (ok["COMMIT"] \/ ok["conn.commit"])
                    THEN "committed"
                    ELSE IF handled /\ (ok["ROLLBACK"] \/ ok["conn.rollback"])
                    THEN "rolled_back"
                    ELSE txn
          /\ exit_error' = IF success THEN NoError ELSE ScopeErr(yielded, "body")
  /\ spc' = "exited"
  /\ UNCHANGED <<exec_vars, sqlite, adapter, conn, backend, sp, yielded, entries>>

NextMy ==
  \/ MyEnter
  \/ MyBody
  \/ MyExit

SpecMy == InitMy /\ [][NextMy]_vars

\* ---------------------------------------------------------- properties
\* the call has ended at an attempt: it returned, or raised out of the
\* try statement, and was not cancelled in the middle of a backoff sleep
EndedAtAttempt == pc = "done" /\ result.x.src # "sleep"

\* the current attempt failed with an error that retry_on does not match
FailedOutsideRetryOn == IsError(outcome) /\ outcome.kind \notin retry_on

\* C1: in every call the number of attempts is at most max_retries + 1 at
\* every moment, and at least 1 once the call has ended.
C1_AttemptsInRange ==
  /\ attempts <= policy.max_retries + 1
  /\ pc = "done" => attempts >= 1

C1_Witness ==
  /\ pc = "done"
  /\ policy.max_retries >= 1
  /\ attempts = policy.max_retries + 1

\* C2: when op raised in each of the first k attempts and gave a value in
\* attempt k+1 (which the scope let through), execute returns the value of
\* that last call, after k+1 attempts and k sleeps, with k <= max_retries;
\* and a call that ends on an op failure that was caught and judged
\* transient has used all max_retries + 1 attempts (it is retried whenever a
\* retry is left).
C2_RetriesThenSucceeds ==
  /\ (pc = "done" /\ outcome.kind = "Value" /\ op_raised = attempts - 1)
       => /\ result = Returned(Value(attempts))
          /\ sleeps = op_raised
          /\ op_raised <= policy.max_retries
  /\ (EndedAtAttempt /\ IsError(outcome) /\ outcome.src = "op"
        /\ outcome.kind \in retry_on /\ verdict = "true")
       => attempts = policy.max_retries + 1

C2_Witness ==
  /\ pc = "done"
  /\ op_raised = 2
  /\ attempts = 3
  /\ sleeps = 2
  /\ result = Returned(Value(3))

\* C3: when the first attempt fails with a caught failure that the
\* classifier judges not transient, the call ends there: one attempt, no
\* sleep, that failure raised if raises and default returned otherwise.
C3_ClassifierFalseStops ==
  (attempts = 1 /\ verdict = "false")
    => /\ pc = "done"
       /\ sleeps = 0
       /\ outcome.kind \in retry_on
       /\ result = IF raises THEN Raised(outcome) ELSE Returned(Default)

C3_Witness ==
  /\ attempts = 1
  /\ verdict = "false"
  /\ policy.max_retries >= 2
  /\ ~raises
  /\ result = Returned(Default)

\* C4 as stated: a call in which an attempt failed with an error outside
\* retry_on has made exactly one attempt, no sleep and no classifier call.
C4_Original ==
  (pc = "done" /\ FailedOutsideRetryOn)
    => (attempts = 1 /\ sleeps = 0 /\ classifier_calls = 0)

\* C4 amended: an attempt that fails with an error outside retry_on is the
\* last of the call: the classifier is not called for it, no sleep and no
\* attempt follows it; when it is the first attempt the call has made
\* exactly one attempt, no sleep and no classifier call.
C4_OutsideRetryOnEndsCall ==
  FailedOutsideRetryOn
    => /\ pc \in {"except", "done"}
       /\ verdict = "none"
       /\ sleeps = attempts - 1
       /\ classifier_calls <= attempts - 1
       /\ attempts = 1 => (sleeps = 0 /\ classifier_calls = 0)

C4_Witness ==
  /\ pc = "done"
  /\ FailedOutsideRetryOn
  /\ attempts = 2
  /\ sleeps = 1
  /\ classifier_calls = 1

\* C5: when the call ends on a failure that was caught and judged
\* transient (so every attempt failed that way), it has made exactly
\* max_retries + 1 attempts and max_retries sleeps, and it returns default
\* if raises is false and re-raises the failure if raises is true.
C5_Exhaustion ==
  (EndedAtAttempt /\ IsError(outcome) /\ outcome.kind \in retry_on
     /\ verdict = "true")
    => /\ attempts = policy.max_retries + 1
       /\ sleeps = policy.max_retries
       /\ result = IF raises THEN Raised(outcome) ELSE Returned(Default)

C5_Witness ==
  /\ EndedAtAttempt
  /\ verdict = "true"
  /\ policy.max_retries = 2
  /\ attempts = 3
  /\ sleeps = 2
  /\ ~raises
  /\ result = Returned(Default)

\* C6 as stated: whenever execute raises with raises = true (other than by
\* a cancellation of a sleep), what it raises is the failure of the last
\* attempt made, as that attempt produced it.
C6_RaisesLastFailure ==
  (EndedAtAttempt /\ raises /\ result.tag = "raise") => result.x = outcome

\* C7 as stated: a failure outside retry_on is raised whatever raises is.
C7_Original ==
  (pc = "done" /\ FailedOutsideRetryOn) => result = Raised(outcome)

\* C7 amended: a failure outside retry_on is raised when raises is true or
\* when it is no Exception (a cancellation); when raises is false and it is
\* an Exception (a deadline timeout included) execute returns default.
C7_OutsideRetryOnFollowsRaises ==
  (pc = "done" /\ FailedOutsideRetryOn)
    => result = IF raises \/ outcome.kind \notin ExceptionKinds
                THEN Raised(outcome)
                ELSE Returned(Default)

C7_Witness ==
  /\ pc = "done"
  /\ FailedOutsideRetryOn
  /\ outcome.kind = "Fatal"
  /\ ~raises
  /\ result = Returned(Default)

\* C8: with raises = false and retry_on = (), an attempt that runs into
\* overall_timeout_s makes execute return default after that one attempt.
C8_TimeoutGivesDefault ==
  (pc = "done" /\ timed_out /\ ~raises /\ retry_on = {})
    => /\ result = Returned(Default)
       /\ attempts = 1
       /\ sleeps = 0

C8_Witness ==
  /\ pc = "done"
  /\ timed_out
  /\ ~raises
  /\ retry_on = {}
  /\ policy.max_retries >= 1
  /\ result = Returned(Default)

\* C9 as stated: overall_timeout_s is one deadline from the start of the
\* call: the call has ended by overall_timeout_s plus one quantum and no
\* attempt starts after the deadline.
C9_OneDeadlineForTheCall ==
  overall_timeout_s # None
    => /\ pc = "done" => now <= overall_timeout_s + Quantum
       /\ attempt_start <= overall_timeout_s

\* C10: an attempt that runs into overall_timeout_s ends as a TimeoutError
\* of that attempt; it is followed by a sleep and another attempt only if
\* TimeoutError is in retry_on, the classifier accepted it and a retry is
\* left; with retry_on = () and raises = true it is raised after exactly one
\* attempt.
C10_TimeoutIsAnAttemptFailure ==
  timed_out
    => /\ pc \in {"except", "sleep", "loop", "done"}
          => outcome = Err("TimeoutError", attempts, "deadline")
       /\ pc \in {"sleep", "loop"}
          => ("TimeoutError" \in retry_on /\ verdict = "true" /\ delay # None)
       /\ (pc = "done" /\ retry_on = {} /\ raises)
          => (result = Raised(outcome) /\ attempts = 1 /\ sleeps = 0)

C10_Witness ==
  /\ pc = "done"
  /\ timed_out
  /\ retry_on = {}
  /\ raises
  /\ policy.max_retries >= 1
  /\ result = Raised(Err("TimeoutError", 1, "deadline"))

\* ------------------------------------------- properties of the attempts
\* number of occurrences of e in the events of the current attempt
RECURSIVE Count(_, _)
Count(seq, e) ==
  IF seq = <<>> THEN 0
  ELSE (IF Head(seq) = e THEN 1 ELSE 0) + Count(Tail(seq), e)

\* e occurs in seq, and before every occurrence of f
Precedes(seq, e, f) ==
  \A j \in 1..Len(seq) : seq[j] = f => \E i \in 1..(j - 1) : seq[i] = e

\* the place of an event in the order scope.enter, pre_attempt, op, scope.exit
Rank(e) ==
  CASE e = "scope.enter" -> 1
    [] e = "pre_attempt" -> 2
    [] e = "op" -> 3
    [] e = "scope.exit" -> 4

\* the attempt has ended: its result is with the try statement of line 78
AttemptOver == pc \in {"except", "sleep", "done"}

C12_OrderWithinAttempt ==
  /\ \A i, j \in 1..Len(events) : i < j => Rank(events[i]) < Rank(events[j])
  /\ events # <<>> => events[1] = "scope.enter"
  /\ (AttemptOver /\ outcome.kind = "Value")
       => events = IF pre_attempt
                   THEN <<"scope.enter", "pre_attempt", "op", "scope.exit">>
                   ELSE <<"scope.enter", "op", "scope.exit">>
  /\ (events # <<>> /\ pc # "loop") => sleeps_done = attempts - 1
  /\ pc \in {"scope_enter", "pre_attempt", "op", "scope_exit", "except"}
       => sleeps = attempts - 1

C12_Witness ==
  /\ attempts = 2
  /\ sleeps_done = 1
  /\ pc = "except"
  /\ events = <<"scope.enter", "pre_attempt", "op", "scope.exit">>

\* C13: at most one scope of the call is open at any time, and none is open
\* between attempts: when an attempt has failed its scope has been left
\* (scope.exit is its last event) before the sleep starts and before the
\* next attempt enters its scope.
C13_AttemptsSequential ==
  /\ open_scopes \in {0, 1}
  /\ scope_open <=> open_scopes = 1
  /\ pc \in {"call", "loop", "scope_enter", "except", "sleep", "done"}
       => open_scopes = 0
  /\ (pc \in {"sleep", "loop"} /\ attempts >= 1 /\ body.src # "scope_enter")
       => events[Len(events)] = "scope.exit"

C13_Witness ==
  /\ pc = "sleep"
  /\ scope \in {"sync", "async"}
  /\ op_raised = 1
  /\ events[Len(events)] = "scope.exit"
  /\ open_scopes = 0

\* the scope the claim C14 names for an attempt, reading "op is
\* asynchronous" as: what op returns is awaited
NamedScope ==
  IF Awaits(op_kind) /\ attempt_scope_async THEN "async"
  ELSE IF attempt_scope THEN "sync"
  ELSE "null"

\* the same with "op is asynchronous" read as: op is a coroutine function
NamedScopeOfCoroutineFunction ==
  IF op_kind = "coro_fn" /\ attempt_scope_async THEN "async"
  ELSE IF attempt_scope THEN "sync"
  ELSE "null"

C15_CancellationPropagates ==
  /\ (IsError(outcome) /\ outcome.src = "external")
       => /\ verdict = "none"
          /\ pc \in {"except", "done"}
          /\ pc = "done" => result = Raised(outcome)
  /\ (pc = "done" /\ result.x.src = "sleep")
       => result = Raised(Err("CancelledError", attempts, "sleep"))

\* ------------------------------------------ properties of the dbapi scope
\* the commands of the current entry, in order, without their names
Cmds == [i \in 1..Len(trace) |-> trace[i].cmd]

\* the command was issued by the current entry
Has(cmd) == \E i \in 1..Len(trace) : trace[i].cmd = cmd

\* the current entry opened a transaction: its BEGIN did not raise
Opened == trace # <<>> /\ "BEGIN" \notin failed

\* the current entry has been left
Exited == spc = "exited"

\* C16: when a cancellation (or the deadline, which cancels the attempt)
\* fires while the body runs inside the open scope, the scope has issued
\* ROLLBACK TO SAVEPOINT (if it holds a savepoint) and then ROLLBACK when
\* the cancellation leaves it; no left scope that opened a transaction is
\* without a commit or a rollback.
C16_CancellationUnwindsScope ==
  /\ (Exited /\ yielded = "CancelledError")
       => /\ Has("ROLLBACK")
          /\ sp # NoSp => Has("ROLLBACK TO SAVEPOINT")
  /\ (Exited /\ Opened) => (Has("COMMIT") \/ Has("ROLLBACK"))

\* C17: every left entry that opened a transaction has exactly one of:
\* committed (commit called and not failed), rolled back (rollback called);
\* it is committed only if the body returned; a body that did not return
\* never leads to a commit call.
C17_OneTerminalState ==
  (Exited /\ Opened)
    => LET committed == Has("COMMIT") /\ "COMMIT" \notin failed
           rolled_back == Has("ROLLBACK")
       IN /\ committed # rolled_back
          /\ committed <=> (yielded = "ok" /\ "COMMIT" \notin failed)
          /\ yielded # "ok" => ~Has("COMMIT")

\* C18: when the body did not return, the left scope has called the outer
\* ROLLBACK, whether or not ROLLBACK TO SAVEPOINT raised, and the error that
\* left it is the body's, whether or not the rollbacks raised.
C18_OuterRollbackAndOriginalError ==
  (Exited /\ yielded \in {"Exception", "CancelledError"})
    => /\ Has("ROLLBACK")
       /\ exit_error = ScopeErr(yielded, "body")

\* C19: when the body returned and RELEASE SAVEPOINT raised, the commit is
\* still called; and, the commit not raising, no ROLLBACK TO SAVEPOINT and
\* no ROLLBACK is issued, the transaction is committed and no error leaves
\* the scope.
C19_ReleaseFailureSuppressed ==
  (Exited /\ yielded = "ok" /\ "RELEASE SAVEPOINT" \in failed)
    => /\ Has("COMMIT")
       /\ "COMMIT" \notin failed
            => /\ ~Has("ROLLBACK TO SAVEPOINT")
               /\ ~Has("ROLLBACK")
               /\ txn = "committed"
               /\ exit_error = NoError

C19_Witness ==
  /\ Exited
  /\ yielded = "ok"
  /\ "RELEASE SAVEPOINT" \in failed
  /\ Cmds = <<"BEGIN", "SAVEPOINT", "body", "RELEASE SAVEPOINT", "COMMIT">>
  /\ txn = "committed"
  /\ exit_error = NoError

\* the setting C20 speaks of: read_only, a backend that takes the hint, a
\* savepoint that was created, and a commit that does not raise
HintedWithSavepoint ==
  /\ Exited
  /\ read_only
  /\ Lower(backend) \in ReadOnlyBackends
  /\ sp # NoSp
  /\ "COMMIT" \notin failed

\* the SAVEPOINT of the entry and its RELEASE / ROLLBACK TO carry one name
SameName ==
  \A i, j \in 1..Len(trace) :
    (trace[i].cmd = "SAVEPOINT"
       /\ trace[j].cmd \in {"RELEASE SAVEPOINT", "ROLLBACK TO SAVEPOINT"})
      => (i < j /\ trace[i].name = trace[j].name /\ trace[j].name = sp)

C21_HintFailureDoesNotFailScope ==
  (Exited /\ failed = {"SET TRANSACTION READ ONLY"})
    => /\ Has("body")
       /\ yielded = "ok" => (txn = "committed" /\ exit_error = NoError)

\* C22: when the entry holds no savepoint (supports_savepoint false,
\* fail_savepoint true, or the SAVEPOINT statement raised), the left scope
\* has issued BEGIN first, the commit after a body that returned and the
\* rollback after a body that failed, and neither RELEASE SAVEPOINT nor
\* ROLLBACK TO SAVEPOINT.
C22_NoSavepointStillBrackets ==
  (Exited /\ Opened /\ sp = NoSp)
    => /\ trace[1].cmd = "BEGIN"
       /\ yielded = "ok" => Has("COMMIT")
       /\ yielded \in {"Exception", "CancelledError"}
            => (Has("ROLLBACK") /\ ~Has("COMMIT"))
       /\ ~Has("RELEASE SAVEPOINT")
       /\ ~Has("ROLLBACK TO SAVEPOINT")
       /\ ~SpSupported => ~Has("SAVEPOINT")

\* ------------------------------------------- properties of the traced call
\* C23: when execute_traced_optional has ended, what it gave its caller is
\* what the execute it awaited gave (the same value returned, the same
\* error raised), in each of the three telemetry modes.
C23_TracedEqualsPlain ==
  traced # Pending => traced = result

\* C24: with telemetry enabled (and available), when n attempts are over
\* there are n attempt spans, numbered 1..n in order, the spans of the
\* earlier attempts carry outcome error, and the span of the last attempt
\* carries success if the attempt gave a value and error otherwise,
\* whichever scopes were supplied.
C24_OneSpanPerAttempt ==
  (telemetry = "enabled" /\ AttemptOver)
    => /\ Len(spans) = attempts
       /\ \A i \in 1..Len(spans) :
            /\ spans[i].number = i
            /\ i < attempts => spans[i].outcome = "error"
            /\ i = attempts =>
                 spans[i].outcome = (IF outcome.kind = "Value" THEN "success"
                                     ELSE "error")

\* ---------------------------------------- properties of _ensure_metrics
\* C25: however the threads' calls of _ensure_metrics interleave, each of
\* the three instruments is created at most once, and the callers that
\* read instruments after their call returned all read the same objects.
C25_InstrumentsCreatedOnce ==
  /\ \A i \in InstrumentNames : instruments.created[i] <= 1
  /\ \A t, u \in Threads :
       (instruments.seen[t] # <<>> /\ instruments.seen[u] # <<>>
          /\ instruments.seen[t][1] # NoInstrument /\ instruments.seen[u][1] # NoInstrument)
         => instruments.seen[t] = instruments.seen[u]

\* ------------------------------------------------ properties of backoff
RECURSIVE Pow2(_)
Pow2(i) == IF i = 0 THEN 1 ELSE 2 * Pow2(i - 1)

\* every draw the caller's generator has made was zero
ZeroOffsets(c) == \A i \in 1..Len(callers.draws[c]) : callers.draws[c][i] = 0

\* C26: with jitter 0 or zero offsets the i-th delay (from 0) is
\* min(max_delay, initial_delay * 2^i), the delays never decrease and never
\* exceed max_delay, and the exhausted generator has yielded exactly
\* max_retries of them (none for max_retries = 0).
C26_DeterministicDoubling ==
  \A c \in Callers :
    (policy.jitter = 0 \/ ZeroOffsets(c)) =>
      /\ \A i \in 1..Len(callers.delays[c]) :
           /\ callers.delays[c][i] = Min(policy.max_delay, policy.initial_delay * Pow2(i - 1))
           /\ callers.delays[c][i] <= policy.max_delay
           /\ i > 1 => callers.delays[c][i - 1] <= callers.delays[c][i]
      /\ callers.cpc[c] = "attempt" => Len(callers.delays[c]) = policy.max_retries

\* the generator ran out after doubling twice and meeting the cap
C26_Witness ==
  /\ callers.cpc[1] = "attempt"
  /\ ZeroOffsets(1)
  /\ Len(callers.delays[1]) = policy.max_retries
  /\ Len(callers.delays[1]) >= 2
  /\ callers.delays[1][1] < callers.delays[1][2]
  /\ callers.delays[1][Len(callers.delays[1])] = policy.max_delay
  /\ policy.max_delay < policy.initial_delay * Pow2(Len(callers.delays[1]) - 1)

\* C27: every delay yielded lies in [0, max_delay], whatever was drawn, and
\* the base of each yield is the un-jittered doubling capped at max_delay,
\* whatever the earlier draws were.
C27_JitterBoundedAndBaseUntouched ==
  \A c \in Callers :
    \A i \in 1..Len(callers.delays[c]) :
      /\ 0 <= callers.delays[c][i]
      /\ callers.delays[c][i] <= policy.max_delay
      /\ callers.draws[c][i] \in (0 - callers.bases[c][i] * policy.jitter)..(callers.bases[c][i] * policy.jitter)
      /\ callers.bases[c][i] = BackoffBase(policy, i)

\* a first draw that moved the first delay, then a second yield whose draw
\* was cut off at max_delay
C27_Witness ==
  /\ policy.jitter = 1
  /\ Len(callers.delays[1]) >= 2
  /\ callers.draws[1][1] < 0
  /\ callers.delays[1][1] # callers.bases[1][1]
  /\ callers.bases[1][2] = BackoffBase(policy, 2)
  /\ callers.draws[1][2] > 0
  /\ callers.bases[1][2] + callers.draws[1][2] > policy.max_delay
  /\ callers.delays[1][2] = policy.max_delay

\* s is the beginning of t
IsPrefix(s, t) == Len(s) <= Len(t) /\ s = SubSeq(t, 1, Len(s))

\* C28: callers sharing one policy each unpack a full backoff sequence of
\* their own, make at most max_retries + 1 attempts, and sleep their own
\* delays in order, one after each attempt but the last.
C28_CallersIndependent ==
  \A c \in Callers :
    /\ callers.cattempts[c] <= policy.max_retries + 1
    /\ IsPrefix(callers.cslept[c], callers.delays[c])
    /\ callers.cpc[c] \in {"attempt", "sleep", "done"} => callers.delays[c] \in Backoff(policy)
    /\ callers.cpc[c] = "attempt" => Len(callers.cslept[c]) = callers.cattempts[c]
    /\ callers.cpc[c] = "sleep" => Len(callers.cslept[c]) = callers.cattempts[c] - 1
    /\ callers.cpc[c] = "done" => Len(callers.cslept[c]) = callers.cattempts[c] - 1

\* two callers drew different delays from the shared policy; one slept
\* all of its own after the other was already unpacking
C28_Witness ==
  /\ policy.jitter = 1
  /\ callers.cpc[1] = "done" /\ callers.cpc[2] = "done"
  /\ callers.delays[1] # callers.delays[2]
  /\ callers.cslept[1] = callers.delays[1] /\ callers.cslept[1] # <<>>
  /\ callers.cattempts[1] = policy.max_retries + 1
  /\ callers.cattempts[2] = 1

\* --------------------------------------- properties of dbapi_classifier
\* the failure or its wrapped cause exposes a listed SQLSTATE
ExposesTransientSqlState(e) ==
  \/ e.pgcode \in TransientSqlStates
  \/ e.sqlstate \in TransientSqlStates
  \/ e.has_orig /\ e.orig_pgcode \in TransientSqlStates
  \/ e.has_orig /\ e.orig_sqlstate \in TransientSqlStates

\* the failure exposes a SQLSTATE and nothing else the classifier looks at
OnlySqlStateSignal(e) ==
  /\ e.pgcode # NoAttr \/ e.sqlstate # NoAttr
     \/ (e.has_orig /\ (e.orig_pgcode # NoAttr \/ e.orig_sqlstate # NoAttr))
  /\ ~ExposesTransientSqlState(e)
  /\ IntOf(e.args0) = None
  /\ ~e.has_orig \/ IntOf(e.orig_args0) = None
  /\ ~MessageSignal(e)

\* C29: a failure that exposes, itself or through its wrapped cause, a
\* SQLSTATE (pgcode or sqlstate) of 40P01, 55P03 or 40001 is classified
\* true, and one whose only signal is another SQLSTATE is classified false.
C29_TransientSqlStateIsTrue ==
  classification.classified =>
    /\ ExposesTransientSqlState(classification.failure) => classification.is_transient
    /\ OnlySqlStateSignal(classification.failure) => ~classification.is_transient

\* C30 as stated: a listed error number first in the args of the failure
\* or first in the args of its wrapped cause is classified true, whichever
\* of the two carries it.
C30_Original ==
  classification.classified =>
    ((IntOf(classification.failure.args0) \in TransientErrnos
        \/ (classification.failure.has_orig /\ IntOf(classification.failure.orig_args0) \in TransientErrnos))
      => classification.is_transient)

\* C30: a listed error number first in the args of the wrapped cause is
\* classified true; one first in the args of the failure itself is
\* classified true when the wrapped cause is missing or its args give no
\* number.
C30_ErrnoCausePrecedes ==
  classification.classified =>
    /\ (classification.failure.has_orig /\ IntOf(classification.failure.orig_args0) \in TransientErrnos) => classification.is_transient
    /\ (IntOf(classification.failure.args0) \in TransientErrnos
          /\ (~classification.failure.has_orig \/ IntOf(classification.failure.orig_args0) = None)) => classification.is_transient

\* the failure's own number decided: the cause's first argument is text
\* and nothing else signals
C30_Witness ==
  /\ classification.classified
  /\ classification.is_transient
  /\ classification.failure.has_orig
  /\ classification.failure.orig_args0 = TextArg
  /\ IntOf(classification.failure.args0) \in TransientErrnos
  /\ Pg(classification.failure) \notin TransientSqlStates
  /\ ~MessageSignal(classification.failure)

\* signals 2, 4 and 5: the phrases searched whatever the type of the failure
PhraseSignal(e) ==
  \E ph \in {"canceling statement due to statement timeout", "deadlock detected",
             "canceling statement due to lock timeout", "nowait is set",
             "deadlock", "lock wait timeout", "database is locked"} :
    ph \in e.msg

\* signal 3: a listed error number first in the args of the failure or of
\* its wrapped cause
ErrnoSignal(e) ==
  \/ IntOf(e.args0) \in TransientErrnos
  \/ e.has_orig /\ IntOf(e.orig_args0) \in TransientErrnos

\* signal 6: a listed type name, of the failure or of its wrapped cause
OperationalName(e) ==
  \/ e.type \in OperationalNames
  \/ e.has_orig /\ e.orig_type \in OperationalNames

\* signal 6: a listed token in the message, in any letter case
OperationalToken(e) == e.msg \cap OperationalTokens # {}

\* C31: a failure without SQLSTATE, error number or phrase signal is
\* classified true only if its type name (or its cause's) is listed and
\* its message holds a listed token; a failure matching none of the six
\* signals is classified false; the letter case of the message never
\* changes the answer.
C31_GenericFallbackNeedsBoth ==
  classification.classified =>
    LET e == classification.failure
    IN /\ (classification.is_transient /\ ~ExposesTransientSqlState(e)
             /\ ~ErrnoSignal(e) /\ ~PhraseSignal(e))
            => (OperationalName(e) /\ OperationalToken(e))
       /\ (~ExposesTransientSqlState(e) /\ ~ErrnoSignal(e) /\ ~PhraseSignal(e)
             /\ ~(OperationalName(e) /\ OperationalToken(e)))
            => ~classification.is_transient
       /\ classification.is_transient =
            dbapi_classifier([e EXCEPT !.msg_case = "lower"])

\* an upper-case "connection reset" on a cause named InterfaceError, and
\* no other signal: the fallback alone answered true
C31_Witness ==
  /\ classification.classified
  /\ classification.is_transient
  /\ classification.failure.msg = {"connection reset"}
  /\ classification.failure.msg_case = "upper"
  /\ classification.failure.type = "Exception"
  /\ classification.failure.has_orig
  /\ classification.failure.orig_type = "InterfaceError"
  /\ ~ExposesTransientSqlState(classification.failure)
  /\ ~ErrnoSignal(classification.failure)

\* ------------------------------------------- properties of the classifier
\* C32: a classifier that raises ends the call as a classifier returning
\* false does: no further attempt, and the failure of the attempt is
\* raised (raises = true) or default returned (raises = false); the
\* classifier's own exception is never what the caller gets.
C32_RaisingClassifierIsFalse ==
  (pc = "done" /\ verdict = "raise")
    => /\ result = (IF raises THEN Raised(outcome) ELSE Returned(Default))
       /\ ~(result.tag = "raise" /\ result.x.src = "classifier")

\* ------------------------- properties of scope-entry and hook failures
\* the attempt that is over failed before op: entering the scope or the
\* hook raised
FailedBeforeOp ==
  /\ pc = "except"
  /\ IsError(body)
  /\ body.src \in {"scope_enter", "pre_attempt"}

\* C33: an attempt whose scope entry or hook raised never called op; the
\* failure is the attempt's failure: it is matched against retry_on, the
\* classifier (if any) is asked exactly when it matches, and a sleep and
\* another attempt follow exactly when it matches, the verdict is
\* transient and a delay is left; a hook failure leaves through the exit
\* of the scope, which sees the failure and passes it on.
C33_EarlyFailureIsAttemptFailure ==
  /\ [](FailedBeforeOp =>
         /\ \A i \in 1..Len(events) : events[i] # "op"
         /\ outcome = body
         /\ body.src = "pre_attempt" => events[Len(events)] = "scope.exit"
         /\ body.src = "scope_enter" =>
              \A i \in 1..Len(events) : events[i] \notin {"pre_attempt", "scope.exit"})
  /\ [][FailedBeforeOp =>
         /\ classifier_calls' = classifier_calls
              + (IF Caught(outcome) /\ has_classifier THEN 1 ELSE 0)
         /\ (pc' = "sleep") <=> (Caught(outcome) /\ verdict' = "true" /\ delay # None)
         /\ (pc' # "sleep") => pc' = "done"
      ]_vars

\* a hook failure inside an entered scope, judged transient and followed by a sleep
C33_Witness ==
  /\ pc = "sleep"
  /\ outcome.src = "pre_attempt"
  /\ scope \in {"sync", "async"}
  /\ attempts = 2
  /\ has_classifier

\* ------------------------------------ properties of the call's counters
\* C34: the classifier is called only for a failed attempt whose failure
\* retry_on matches, once for that attempt; so at most once per attempt and
\* at most max_retries + 1 times in the call, and an attempt that gave a
\* value is followed by no call of it.
C34_ClassifierOncePerFailedAttempt ==
  /\ [](/\ classifier_calls <= attempts
        /\ classifier_calls <= policy.max_retries + 1
        /\ (pc \in {"except", "done"} /\ outcome.kind = "Value")
             => classifier_calls <= attempts - 1)
  /\ [][classifier_calls' # classifier_calls =>
          /\ pc = "except"
          /\ IsError(outcome)
          /\ outcome.kind \in retry_on
          /\ has_classifier
          /\ classifier_calls' = classifier_calls + 1
          /\ pc' # "except"
       ]_vars

\* every attempt of an exhausted call failed and was judged by the classifier
C34_Witness ==
  /\ pc = "done"
  /\ has_classifier
  /\ policy.max_retries = MaxRetriesBound
  /\ attempts = policy.max_retries + 1
  /\ classifier_calls = policy.max_retries + 1

\* C35: when a call ends other than by a cancellation during a sleep, the
\* sleeps begun and the sleeps completed both number attempts - 1: none
\* after the last attempt, one between consecutive attempts.
C35_SleepsAreAttemptsMinusOne ==
  /\ EndedAtAttempt => (sleeps = attempts - 1 /\ sleeps_done = attempts - 1)
  /\ pc \in {"scope_enter", "pre_attempt", "op", "scope_exit", "except"}
       => (sleeps = attempts - 1 /\ sleeps_done = attempts - 1)

\* a call that ended at its third attempt after two sleeps
C35_Witness ==
  /\ EndedAtAttempt
  /\ attempts = 3
  /\ sleeps = 2
  /\ sleeps_done = 2
  /\ result.tag = "return"
  /\ result.x.kind = "Value"

\* ------------------------------------------ properties of the other scopes
\* C36: under the SQLAlchemy session scope a failed body leaves the scope
\* as its own failure, after tx.rollback() was called, whatever the failure's
\* kind and whatever the rollback did; and the body ran once.
C36_BodyFailureLeavesUntouched ==
  (adapter \in SaAdapters /\ spc = "exited" /\ yielded \notin {"none", "ok"})
    => /\ exit_error = ScopeErr(yielded, "body")
       /\ Has("rollback")
       /\ Count(trace, Stmt("body", NoSp)) = 1

\* C37: when the caller supplied a scope factory, op is invoked only while
\* a scope made by a supplied factory is entered, never under the no-op
\* scope, whatever kind of callable op is.
C37_OpRunsInsideSuppliedScope ==
  (pc = "op" /\ (attempt_scope \/ attempt_scope_async))
    => /\ scope \in {"sync", "async"}
       /\ scope_open

\* the transaction and savepoint nesting of the SQLite connection, now and
\* when the current entry of the scope began
LiteDepth(c) == <<c.begun, c.savepoints>>
LiteDepthAtEntry(c) == <<c.entry_begun, c.entry_savepoints>>

\* C38: an entry of the aiosqlite scope in which no statement after the
\* first SAVEPOINT failed leaves the connection, when it has exited after
\* its body, with the transaction and the savepoints it had at entry.
C38_ExitRestoresNestingDepth ==
  (/\ adapter = "aiosqlite"
   /\ spc = "exited"
   /\ yielded # "none"
   /\ failed \subseteq {"SAVEPOINT"})
    => LiteDepth(sqlite) = LiteDepthAtEntry(sqlite)

\* the statements of the aiomysql scope up to the body, as C39 lists them
\* (with the hint of a read-only entry after BEGIN)
MyPrologue ==
  <<Stmt("BEGIN", NoSp)>>
    \o (IF read_only THEN <<Stmt("SET TRANSACTION READ ONLY", NoSp)>> ELSE <<>>)
    \o <<Stmt("SAVEPOINT", "dbop_runner"), Stmt("SAVEPOINT", sp), Stmt("body", NoSp)>>

\* C39: the aiomysql scope issues BEGIN, SAVEPOINT dbop_runner and a
\* SAVEPOINT of its own name; after a body that returned, RELEASE SAVEPOINT
\* of that name and of dbop_runner, then COMMIT, and conn.commit() if COMMIT
\* raised; after a body that failed, ROLLBACK TO SAVEPOINT of both, then
\* ROLLBACK, and conn.rollback() if ROLLBACK raised, and the body's failure
\* leaves the scope; a failed savepoint statement changes none of this.
C39_AiomysqlTranscript ==
  (adapter = "aiomysql" /\ spc = "exited" /\ yielded # "none")
    => /\ sp \in SpNames \ {"dbop_runner"}
       /\ IF yielded = "ok"
          THEN /\ trace = MyPrologue
                    \o <<Stmt("RELEASE SAVEPOINT", sp),
                         Stmt("RELEASE SAVEPOINT", "dbop_runner"),
                         Stmt("COMMIT", NoSp)>>
                    \o (IF "COMMIT" \in failed
                        THEN <<Stmt("conn.commit", NoSp)>> ELSE <<>>)
               /\ exit_error = NoError
          ELSE /\ trace = MyPrologue
                    \o <<Stmt("ROLLBACK TO SAVEPOINT", sp),
                         Stmt("ROLLBACK TO SAVEPOINT", "dbop_runner"),
                         Stmt("ROLLBACK", NoSp)>>
                    \o (IF "ROLLBACK" \in failed
                        THEN <<Stmt("conn.rollback", NoSp)>> ELSE <<>>)
               /\ exit_error = ScopeErr(yielded, "body")

\* ------------------------------------------- properties of the metrics
\* C40: with telemetry and metrics active, when execute_traced_optional has
\* ended it has added 1 to dbop_operations_total and recorded one duration,
\* however it ended, and dbop_attempts_total has grown by the number of
\* attempts, those that failed while entering the scope included.
C40_OneOperationOneDurationEveryAttempt ==
  (MetricsActive /\ traced # Pending)
    => /\ instruments.ops_total = 1
       /\ instruments.durations = 1
       /\ instruments.attempts_total = attempts

====
